---- MODULE Spec2Model ----
(***************************************************************************)
(* Verification model of the job-data cleaning pipeline of                 *)
(* genai_job_finder.data_cleaner: the LangGraph workflow of graph.py, its  *)
(* four stage nodes, the chains the nodes call, and the batch loop         *)
(* process_dataframe.                                                      *)
(*                                                                         *)
(* Conventions.                                                            *)
(*  - A Python str that the code inspects character by character (the      *)
(*    original classification strings) is a sequence of one-character      *)
(*    strings; None is the sequence NoneStr.                               *)
(*  - A Python float is the integer number of halves it holds (Float(n)    *)
(*    = 2n), so that the division by two of SalaryRange.__post_init__ is   *)
(*    exact; an absent Optional[float] is NoneNum.                         *)
(*  - An exception raised by a called function is a value (AttributeError) *)
(*    or a field `raised` of the result; an LLM call is an input of the    *)
(*    action that makes it: a reply, or a failure.                         *)
(***************************************************************************)
EXTENDS Integers, Sequences, FiniteSets, TLC

VARIABLES
    df,                 \* process_dataframe: the input table, a sequence of rows
    progress_callback,  \* process_dataframe: whether a progress callback was passed
    idx,                \* process_dataframe: number of rows the loop has finished
    pc,                 \* position: in the loop, at a graph node, in the except block
    job_data,           \* process_dataframe: row.to_dict() of the current row
    state,              \* the JobCleaningState threaded through the graph
    trace,              \* graph nodes that have run and returned for the current job
    results,            \* process_dataframe: the rows collected so far
    raised_in,          \* the node whose exception left process_job, or "none"
    chain_failures,     \* nodes whose chain caught an exception of its own steps
    detected,           \* what the salary, location and employment chains returned
    sal_text,           \* salary chain alone: the text given to the chain
    sal_regex,          \* salary chain alone: what _extract_salary_with_regex returned
    sal_result,         \* salary chain alone: what extract_salary_range returned
    exp_years,          \* from_years alone: the year counts to classify
    exp_levels,         \* from_years alone: the levels returned so far
    job_runs,           \* database: the job_runs table, row i has id i
    jobs_table,         \* database: the jobs table, rows in insertion order
    companies,          \* database: the companies table, rows in insertion order
    uuid,               \* number of ids uuid.uuid4() has generated
    parse_pc,           \* parse_jobs: position of the invocation
    job_run,            \* parse_jobs: id of the run of the invocation, 0 before the first
    pages,              \* _get_job_ids: number of search pages to fetch
    page_i,             \* _get_job_ids: number of search pages fetched
    job_ids,            \* _get_job_ids: the ids collected so far
    unique_job_ids,     \* _get_job_data: the ids still to be fetched, in order
    jobs,               \* _get_job_data: the Job objects collected so far
    net_log,            \* the fetches and sleeps of the scrape loops of the invocation
    parse_exc,          \* parse_jobs: the exception caught or raised, or NoError
    db_calls,           \* database alone: number of calls made
    last_call,          \* database alone: the last call, its result, the table before it
    prev_call,          \* database alone: the call before the last, and the id it returned
    source_table,       \* process_database_table: the table the jobs are read from
    target_table,       \* process_database_table: the table the results are written to
    other_tables,       \* database: the tables of the file other than the three above
    invocations,        \* process_job: the calls in progress on one graph
    checkpoints,        \* MemorySaver: the state saved last under each thread id
    detail_soup,        \* _extract_job_details alone: the job-detail page it is given
    detail_job,         \* _extract_job_details alone: what it returned
    chain_call,         \* a cleaning chain alone: the call, its position and its result
    total_jobs,         \* parse_jobs: the number of jobs asked for
    page_log            \* _get_job_ids: the search pages requested and what they gave

vars == <<df, progress_callback, idx, pc, job_data, state, trace, results, raised_in,
          chain_failures, detected, sal_text, sal_regex, sal_result,
          exp_years, exp_levels,
          job_runs, jobs_table, companies, uuid,
          parse_pc, job_run, pages, page_i, job_ids, unique_job_ids, jobs, net_log,
          parse_exc, db_calls, last_call, prev_call,
          source_table, target_table, other_tables, invocations, checkpoints,
          detail_soup, detail_job, chain_call, total_jobs, page_log>>

graph_vars == <<df, progress_callback, idx, pc, job_data, state, trace, results, raised_in,
                chain_failures, detected>>
salary_vars == <<sal_text, sal_regex, sal_result>>
level_vars == <<exp_years, exp_levels>>

database_vars == <<job_runs, jobs_table, companies, uuid>>
parser_vars == <<parse_pc, job_run, pages, page_i, job_ids, unique_job_ids, jobs, net_log,
          parse_exc, total_jobs, page_log>>

caller_vars == <<db_calls, last_call, prev_call>>
cleaner_vars == <<source_table, target_table, other_tables>>
thread_vars == <<invocations, checkpoints>>
detail_vars == <<detail_soup, detail_job>>

\* what each part of the model leaves alone
outside_graph == <<salary_vars, level_vars, database_vars, parser_vars, caller_vars,
                   cleaner_vars, thread_vars,
    detail_vars, chain_call>>
outside_salary == <<graph_vars, level_vars, database_vars, parser_vars, caller_vars,
                    cleaner_vars, thread_vars,
    detail_vars, chain_call>>
outside_level == <<graph_vars, salary_vars, database_vars, parser_vars, caller_vars,
                   cleaner_vars, thread_vars,
    detail_vars, chain_call>>
outside_parser == <<graph_vars, salary_vars, level_vars, caller_vars,
                    cleaner_vars, thread_vars,
    detail_vars, chain_call>>
outside_database == <<graph_vars, salary_vars, level_vars, parser_vars,
                      cleaner_vars, thread_vars,
    detail_vars, chain_call>>
outside_threads == <<graph_vars, salary_vars, level_vars, database_vars, parser_vars,
                     caller_vars, cleaner_vars,
    detail_vars, chain_call>>

outside_details == <<graph_vars, salary_vars, level_vars, parser_vars, caller_vars,
                     cleaner_vars, thread_vars, chain_call>>
outside_chains == <<graph_vars, salary_vars, level_vars, database_vars, parser_vars,
                    caller_vars, cleaner_vars, thread_vars, detail_vars>>

(***************************************************************************)
(* Bounds of the model.                                                    *)
(***************************************************************************)
MaxRows == 2
MaxYears == 15
MaxRuns == 2
MaxPages == 2
MaxCalls == 3

(***************************************************************************)
(* Python values.                                                          *)
(***************************************************************************)
NoneStr == <<"None">>
NoneNum == -1
NoneEnum == "None"
NoneSalary == [none |-> TRUE]
NotCalled == [called |-> FALSE]
AttributeError == "AttributeError"

Float(n) == 2 * n

UpperAlpha == <<"A","B","C","D","E","F","G","H","I","J","K","L","M",
                "N","O","P","Q","R","S","T","U","V","W","X","Y","Z">>
LowerAlpha == <<"a","b","c","d","e","f","g","h","i","j","k","l","m",
                "n","o","p","q","r","s","t","u","v","w","x","y","z">>

LowerChar(c) ==
    IF \E i \in 1..Len(UpperAlpha) : UpperAlpha[i] = c
    THEN LowerAlpha[CHOOSE i \in 1..Len(UpperAlpha) : UpperAlpha[i] = c]
    ELSE c

\* str.lower()
Lower(s) == [i \in 1..Len(s) |-> LowerChar(s[i])]

\* str.strip()
Strip(s) ==
    LET inked == {i \in 1..Len(s) : s[i] # " "}
    IN  IF inked = {} THEN <<>>
        ELSE SubSeq(s, CHOOSE i \in inked : \A j \in inked : i <= j,
                       CHOOSE i \in inked : \A j \in inked : i >= j)

\* sub in s
Contains(sub, s) ==
    \E i \in 0..(Len(s) - Len(sub)) : SubSeq(s, i + 1, i + Len(sub)) = sub

\* truthiness of an Optional[str]
Truthy(s) == s # NoneStr /\ s # <<>>

(***************************************************************************)
(* models.py: the enumerations and SalaryRange.                            *)
(***************************************************************************)
WorkLocationType == {"Remote", "Hybrid", "On-site", "Unknown"}
EmploymentType == {"Full-time", "Part-time", "Contract", "Internship", "Unknown"}

\* the values of the members of ExperienceLevel
ExperienceLevelValue(level) ==
    CASE level = "ENTRY_LEVEL" -> 0
      [] level = "JUNIOR" -> 1
      [] level = "ASSOCIATE" -> 2
      [] level = "MID" -> 3
      [] level = "SENIOR" -> 4
      [] level = "STAFF_PRINCIPAL" -> 5
      [] level = "DIRECTOR_EXECUTIVE" -> 6

ExperienceLevel ==
    {"ENTRY_LEVEL", "JUNIOR", "ASSOCIATE", "MID", "SENIOR", "STAFF_PRINCIPAL",
     "DIRECTOR_EXECUTIVE"}

\* Faulty variant of from_years: four years still count as Associate.
from_years_late_mid(years) ==
    IF years = 0 THEN "ENTRY_LEVEL"
    ELSE IF years = 1 THEN "JUNIOR"
    ELSE IF years <= 4 THEN "ASSOCIATE"
    ELSE IF years <= 5 THEN "MID"
    ELSE IF years <= 8 THEN "SENIOR"
    ELSE IF years <= 12 THEN "STAFF_PRINCIPAL"
    ELSE "DIRECTOR_EXECUTIVE"

\* ExperienceLevel.from_years
from_years(years) ==
    IF years = 0 THEN "ENTRY_LEVEL"
    ELSE IF years = 1 THEN "JUNIOR"
    ELSE IF years <= 3 THEN "ASSOCIATE"
    ELSE IF years <= 5 THEN "MID"
    ELSE IF years <= 8 THEN "SENIOR"
    ELSE IF years <= 12 THEN "STAFF_PRINCIPAL"
    ELSE "DIRECTOR_EXECUTIVE"

\* ExperienceLevel.get_label
get_label(level) ==
    CASE level = "ENTRY_LEVEL" -> "Entry level"
      [] level = "JUNIOR" -> "Junior"
      [] level = "ASSOCIATE" -> "Associate/Early career"
      [] level = "MID" -> "Mid-level"
      [] level = "SENIOR" -> "Senior"
      [] level = "STAFF_PRINCIPAL" -> "Staff/Principal/Lead"
      [] level = "DIRECTOR_EXECUTIVE" -> "Director/VP/Executive"

\* Faulty variant of SalaryRange: the mid point is taken to be the lower bound.
SalaryRangeMidIsMin(min_salary, max_salary, currency, period) ==
    [min_salary |-> min_salary, max_salary |-> max_salary,
     mid_salary |-> min_salary, currency |-> currency, period |-> period]

\* SalaryRange(min_salary=..., max_salary=..., currency=..., period=...) with the
\* dataclass default mid_salary = None and __post_init__.
SalaryRange(min_salary, max_salary, currency, period) ==
    [min_salary |-> min_salary,
     max_salary |-> max_salary,
     mid_salary |-> IF min_salary # NoneNum /\ max_salary # NoneNum
                    THEN (min_salary + max_salary) \div 2
                    ELSE NoneNum,
     currency |-> currency,
     period |-> period]

(***************************************************************************)
(* Salary texts.  A text is either None, "", whitespace, words without a   *)
(* range, or a range "LO sep HI" in one of the written forms the six       *)
(* patterns of _extract_salary_with_regex tell apart: both numbers with or *)
(* without "$", with or without a "k" suffix, with or without "/yr",       *)
(* joined by "-" or "to".  A number is written in groups of digits         *)
(* separated by commas: <<120, 0>> is "120,000".  other_k says that the    *)
(* text holds a letter k outside the two numbers (as in "work").           *)
(***************************************************************************)
Numerals == {<<80>>, <<120>>, <<90>>, <<130>>, <<999>>, <<1, 0>>, <<80, 0>>, <<120, 0>>}

NoneText == [kind |-> "None"]
EmptyText == [kind |-> "empty"]
BlankText == [kind |-> "blank"]
WordsText(other_k) == [kind |-> "words", other_k |-> other_k]
RangeText(dollar, sep, ksuf, yr, lo, hi, other_k) ==
    [kind |-> "range", dollar |-> dollar, sep |-> sep, ksuf |-> ksuf, yr |-> yr,
     lo |-> lo, hi |-> hi, other_k |-> other_k]

RangeTexts ==
    {RangeText(d, s, k, y, lo, hi, o) :
        d \in BOOLEAN, s \in {"-", "to"}, k \in BOOLEAN, y \in BOOLEAN,
        lo \in Numerals, hi \in Numerals, o \in BOOLEAN}

ContentTexts == {WordsText(o) : o \in BOOLEAN} \cup RangeTexts

\* 'k' in content.lower()
MentionsK(text) ==
    CASE text.kind = "range" -> text.ksuf \/ text.other_k
      [] text.kind = "words" -> text.other_k
      [] OTHER -> FALSE

\* float(s.replace(',', '')) of a captured number
RECURSIVE GroupsValue(_)
GroupsValue(groups) ==
    IF groups = <<>> THEN 0
    ELSE GroupsValue(SubSeq(groups, 1, Len(groups) - 1)) * 1000 + groups[Len(groups)]

ParseNumber(groups) == Float(GroupsValue(groups))

\* re.findall(patterns[p], content, re.IGNORECASE) is non-empty
PatternMatches(p, text) ==
    /\ text.kind = "range"
    /\ CASE p = 1 -> text.dollar /\ text.sep = "-" /\ ~text.ksuf /\ ~text.yr
         [] p = 2 -> text.dollar /\ text.sep = "to" /\ ~text.ksuf /\ ~text.yr
         [] p = 3 -> text.dollar /\ text.sep = "to" /\ ~text.yr
         [] p = 4 -> ~text.dollar /\ text.sep = "-" /\ text.ksuf /\ ~text.yr
         [] p = 5 -> ~text.dollar /\ text.sep = "to" /\ text.ksuf /\ ~text.yr
         [] p = 6 -> text.dollar /\ text.sep = "-" /\ ~text.ksuf /\ text.yr

\* Faulty variant of the thousands heuristic: only the lower bound is scaled.
ApplyThousandsMinOnly(text, min_salary, max_salary) ==
    IF MentionsK(text) /\ min_salary < Float(1000)
    THEN <<min_salary * 1000, max_salary>>
    ELSE <<min_salary, max_salary>>

\* "Handle K suffix (thousands)"
ApplyThousands(text, min_salary, max_salary) ==
    IF MentionsK(text) /\ min_salary < Float(1000)
    THEN <<min_salary * 1000, max_salary * 1000>>
    ELSE <<min_salary, max_salary>>

\* SalaryExtractionChain._extract_salary_with_regex
_extract_salary_with_regex(content) ==
    LET hits == {p \in 1..6 : PatternMatches(p, content)}
    IN  IF hits = {} THEN NoneSalary
        ELSE LET bounds == ApplyThousands(content, ParseNumber(content.lo),
                                          ParseNumber(content.hi))
             IN  SalaryRange(bounds[1], bounds[2], "USD", "yearly")

(***************************************************************************)
(* The LLM fallback of the salary chain.  A reply is the four labelled     *)
(* lines; the value of a line is "null" (null, none or empty, or the line  *)
(* is missing), a written number, or words without a digit.                *)
(***************************************************************************)
LLMNumbers == {[kind |-> "null"], [kind |-> "words"]} \cup
              {[kind |-> "number", groups |-> g] : g \in {<<90, 0>>, <<130, 0>>}}

SalaryReplies ==
    {[status |-> "ok", min |-> a, max |-> b, currency |-> c, period |-> p] :
        a \in LLMNumbers, b \in LLMNumbers, c \in {"null", "eur"}, p \in {"null", "Hourly"}}

LLMFailure == [status |-> "raise"]

\* value.upper() and value.lower() of the currency and period lines
UpperWord(w) == CASE w = "eur" -> "EUR" [] w = "usd" -> "USD" [] OTHER -> w
LowerWord(w) == CASE w = "Hourly" -> "hourly" [] w = "Yearly" -> "yearly" [] OTHER -> w

\* SalaryOutputParser.parse
SalaryOutputParser_parse(reply) ==
    IF reply.min.kind = "words" \/ reply.max.kind = "words"
    THEN NoneSalary      \* float('') raises ValueError, caught: return None
    ELSE LET min_salary == IF reply.min.kind = "null" THEN NoneNum
                           ELSE ParseNumber(reply.min.groups)
             max_salary == IF reply.max.kind = "null" THEN NoneNum
                           ELSE ParseNumber(reply.max.groups)
             currency == IF reply.currency = "null" THEN "USD"
                         ELSE UpperWord(reply.currency)
             period == IF reply.period = "null" THEN "yearly"
                       ELSE LowerWord(reply.period)
         IN  IF min_salary # NoneNum \/ max_salary # NoneNum
             THEN SalaryRange(min_salary, max_salary, currency, period)
             ELSE NoneSalary

\* SalaryExtractionChain.extract_salary_range; llm is what the LLM call does
extract_salary_range(content, llm) ==
    LET salary_range == _extract_salary_with_regex(content)
    IN  IF salary_range # NoneSalary THEN salary_range
        ELSE IF llm.status = "raise" THEN NoneSalary
        ELSE SalaryOutputParser_parse(llm)

(***************************************************************************)
(* Job contents.  The deterministic steps of the chains look at a content  *)
(* only through the number its first matching "N years" pattern captures,  *)
(* the keywords that occur in its lower-cased text, and its salary text.   *)
(***************************************************************************)
Content(years, kw, salary) == [years |-> years, kw |-> kw, salary |-> salary]

\* any(keyword in content_lower for keyword in keywords)
AnyIn(keywords, content) == keywords \cap content.kw # {}

\* sum(1 for keyword in keywords if keyword in content_lower)
Score(keywords, content) == Cardinality(keywords \cap content.kw)

\* ExperienceExtractionChain._extract_years_with_keywords
_extract_years_with_keywords(content) ==
    IF content.years # NoneNum THEN content.years
    ELSE IF AnyIn({"intern", "internship", "student", "trainee"}, content) THEN 0
    ELSE IF AnyIn({"entry", "junior", "graduate", "new grad", "beginner"}, content) THEN 0
    ELSE IF AnyIn({"associate", "early career", "1-3 years"}, content) THEN 2
    ELSE IF AnyIn({"mid-level", "mid level", "intermediate", "3-5 years"}, content) THEN 4
    ELSE IF AnyIn({"senior", "sr.", "experienced", "5-8 years"}, content) THEN 6
    ELSE IF AnyIn({"staff", "principal", "lead", "8-12 years"}, content) THEN 10
    ELSE IF AnyIn({"director", "vp", "executive", "manager", "12+ years"}, content) THEN 15
    ELSE -1

\* IntegerOutputParser.parse: the reply is the numbers written in the LLM's text
IntegerOutputParser_parse(reply) ==
    IF reply.numbers # <<>> THEN reply.numbers[1] ELSE -1

\* ExperienceExtractionChain.extract_experience_years
extract_experience_years(content, llm) ==
    LET years == _extract_years_with_keywords(content)
    IN  IF years >= 0 THEN years
        ELSE IF llm.status = "raise" THEN 0
        ELSE LET result == IntegerOutputParser_parse(llm)
             IN  IF result >= 0 THEN (IF result > 0 THEN result ELSE 0) ELSE 0

\* LocationValidationChain._detect_location_type_with_keywords
_detect_location_type_with_keywords(content) ==
    LET remote_score == Score({"remote", "work from home", "wfh", "100% remote",
                               "fully remote"}, content)
        hybrid_score == Score({"hybrid", "flexible", "office/remote", "remote/office"},
                              content)
        onsite_score == Score({"on-site", "onsite", "in-office", "office-based"}, content)
    IN  IF remote_score > hybrid_score /\ remote_score > onsite_score THEN "Remote"
        ELSE IF hybrid_score > onsite_score THEN "Hybrid"
        ELSE IF onsite_score > 0 THEN "On-site"
        ELSE "Unknown"

\* LocationTypeOutputParser.parse: the reply is the keywords in the LLM's text
LocationTypeOutputParser_parse(reply) ==
    IF "remote" \in reply.kw THEN "Remote"
    ELSE IF "hybrid" \in reply.kw THEN "Hybrid"
    ELSE IF {"on-site", "onsite", "office"} \cap reply.kw # {} THEN "On-site"
    ELSE "Unknown"

\* LocationValidationChain.validate_location_type
validate_location_type(content, llm) ==
    LET detected_type == _detect_location_type_with_keywords(content)
    IN  IF detected_type # "Unknown" THEN detected_type
        ELSE IF llm.status = "raise" THEN "Unknown"
        ELSE LocationTypeOutputParser_parse(llm)

\* EmploymentValidationChain._detect_employment_type_with_keywords
_detect_employment_type_with_keywords(content) ==
    IF AnyIn({"full-time", "full time", "40 hours", "permanent"}, content) THEN "Full-time"
    ELSE IF AnyIn({"part-time", "part time", "20 hours"}, content) THEN "Part-time"
    ELSE IF AnyIn({"contract", "contractor", "freelance"}, content) THEN "Contract"
    ELSE IF AnyIn({"intern", "internship", "student"}, content) THEN "Internship"
    ELSE "Unknown"

\* EmploymentTypeOutputParser.parse
EmploymentTypeOutputParser_parse(reply) ==
    IF {"full-time", "full time"} \cap reply.kw # {} THEN "Full-time"
    ELSE IF {"part-time", "part time"} \cap reply.kw # {} THEN "Part-time"
    ELSE IF "contract" \in reply.kw THEN "Contract"
    ELSE IF {"internship", "intern"} \cap reply.kw # {} THEN "Internship"
    ELSE "Unknown"

\* EmploymentValidationChain.validate_employment_type
validate_employment_type(content, llm) ==
    LET detected_type == _detect_employment_type_with_keywords(content)
    IN  IF detected_type # "Unknown" THEN detected_type
        ELSE IF llm.status = "raise" THEN "Unknown"
        ELSE EmploymentTypeOutputParser_parse(llm)

(***************************************************************************)
(* nodes/location_validation.py and nodes/employment_validation.py: the    *)
(* mapping of an original classification string to the enumeration.        *)
(***************************************************************************)
S_remote == <<"r","e","m","o","t","e">>
S_hybrid == <<"h","y","b","r","i","d">>
S_on_site == <<"o","n","-","s","i","t","e">>
S_onsite == <<"o","n","s","i","t","e">>
S_full == <<"f","u","l","l">>
S_part == <<"p","a","r","t">>
S_contract == <<"c","o","n","t","r","a","c","t">>
S_intern == <<"i","n","t","e","r","n">>
S_temp == <<"t","e","m","p">>

\* map_to_location_type
map_to_location_type(type_str) ==
    IF ~Truthy(type_str) THEN "Unknown"
    ELSE LET type_lower == Strip(Lower(type_str))
         IN  IF Contains(S_remote, type_lower) THEN "Remote"
             ELSE IF Contains(S_hybrid, type_lower) THEN "Hybrid"
             ELSE IF Contains(S_on_site, type_lower) \/ Contains(S_onsite, type_lower)
                  THEN "On-site"
             ELSE "Unknown"

\* map_to_employment_type; EmploymentType has no member TEMPORARY, so the
\* "temp" branch raises AttributeError
map_to_employment_type(type_str) ==
    IF ~Truthy(type_str) THEN "Unknown"
    ELSE LET type_lower == Strip(Lower(type_str))
         IN  IF Contains(S_full, type_lower) THEN "Full-time"
             ELSE IF Contains(S_part, type_lower) THEN "Part-time"
             ELSE IF Contains(S_contract, type_lower) THEN "Contract"
             ELSE IF Contains(S_intern, type_lower) THEN "Internship"
             ELSE IF Contains(S_temp, type_lower) THEN AttributeError
             ELSE "Unknown"

\* not original_type or original_type.strip() == ""
NoOriginal(original_type) == ~Truthy(original_type) \/ Strip(original_type) = <<>>

(***************************************************************************)
(* The four stage nodes.  Each takes the state, whether the construction   *)
(* of its chain (CleanerConfig, get_llm) succeeds, and what its LLM call   *)
(* does; each gives the state it returns, or raised = TRUE when an         *)
(* exception leaves the node.                                              *)
(***************************************************************************)
Returns(s) == [state |-> s, raised |-> FALSE]
Raises(s) == [state |-> s, raised |-> TRUE]

WithError(s, error_msg) ==
    [s EXCEPT !.processing_errors = Append(@, error_msg)]

\* extract_experience_node
extract_experience_node(s, ctor_ok, llm) ==
    IF ctor_ok
    THEN LET min_years == extract_experience_years(s.content, llm)
             experience_level == from_years(min_years)
         IN  Returns([s EXCEPT !.min_years_experience = min_years,
                               !.experience_level = experience_level,
                               !.experience_level_label = get_label(experience_level)])
    ELSE Returns([WithError(s, "Failed to extract experience")
                    EXCEPT !.min_years_experience = 0,
                           !.experience_level = NoneEnum,
                           !.experience_level_label = "Unknown"])

\* the except block of extract_salary_node
SalaryExcept(s) ==
    [WithError(s, "Failed to extract salary")
        EXCEPT !.salary_range = NoneSalary, !.salary_corrected = FALSE]

\* original_salary and original_salary.strip()
HasText(text) == text.kind \in {"words", "range"}

\* extract_salary_node
extract_salary_node(s, ctor_ok, llm) ==
    IF ~ctor_ok THEN Returns(SalaryExcept(s))
    ELSE LET original_salary == s.original_salary_range
             existing_salary == IF HasText(original_salary)
                                THEN _extract_salary_with_regex(original_salary)
                                ELSE NoneSalary
             extracted_salary == extract_salary_range(s.content.salary, llm)
         IN  IF existing_salary # NoneSalary
             THEN Returns([s EXCEPT !.salary_range = existing_salary,
                                    !.salary_corrected = FALSE])
             ELSE IF extracted_salary # NoneSalary
             THEN IF extracted_salary.min_salary = NoneNum
                     \/ extracted_salary.max_salary = NoneNum
                  THEN \* the print formats None with ":,.0f": TypeError
                       Returns(SalaryExcept(s))
                  ELSE Returns([s EXCEPT !.salary_range = extracted_salary,
                                         !.salary_corrected = TRUE])
             ELSE Returns([s EXCEPT !.salary_range = NoneSalary,
                                    !.salary_corrected = FALSE])

\* Faulty variant of the no-original branch: the flag is set whatever was detected.
location_detected_always_corrected(s, detected_type) ==
    [s EXCEPT !.work_location_type = detected_type, !.location_corrected = TRUE]

\* validate_location_node, "No original type, extract from content"
location_detected(s, detected_type) ==
    [s EXCEPT !.work_location_type = detected_type,
              !.location_corrected = (detected_type # "Unknown")]

\* Faulty variant of the validating branch: a validated type always counts as a
\* correction.
location_validated_always_corrected(s, validated_type, original_enum) ==
    IF validated_type = "Unknown"
    THEN [s EXCEPT !.work_location_type = original_enum, !.location_corrected = FALSE]
    ELSE [s EXCEPT !.work_location_type = validated_type, !.location_corrected = TRUE]

\* validate_location_node, "Validate existing type"
location_validated(s, validated_type, original_enum) ==
    IF validated_type = "Unknown"
    THEN [s EXCEPT !.work_location_type = original_enum, !.location_corrected = FALSE]
    ELSE [s EXCEPT !.work_location_type = validated_type,
                   !.location_corrected = (original_enum # validated_type)]

\* validate_location_node
validate_location_node(s, ctor_ok, llm) ==
    LET original_type == s.original_work_location_type
    IN  IF ~ctor_ok
        THEN Returns([WithError(s, "Failed to validate location type")
                        EXCEPT !.work_location_type =
                                   IF Truthy(original_type)
                                   THEN map_to_location_type(original_type)
                                   ELSE "Unknown",
                               !.location_corrected = FALSE])
        ELSE IF NoOriginal(original_type)
        THEN Returns(location_detected(s, validate_location_type(s.content, llm)))
        ELSE Returns(location_validated(s, validate_location_type(s.content, llm),
                                        map_to_location_type(original_type)))

\* the except block of validate_employment_node
EmploymentExcept(s) ==
    LET original_type == s.original_employment_type
        errored == WithError(s, "Failed to validate employment type")
    IN  IF Truthy(original_type)
        THEN IF map_to_employment_type(original_type) = AttributeError
             THEN Raises(errored)
             ELSE Returns([errored EXCEPT
                             !.employment_type = map_to_employment_type(original_type),
                             !.employment_corrected = FALSE])
        ELSE Returns([errored EXCEPT !.employment_type = "Unknown",
                                     !.employment_corrected = FALSE])

\* validate_employment_node, "No original type, extract from content"
employment_detected(s, detected_type) ==
    [s EXCEPT !.employment_type = detected_type,
              !.employment_corrected = (detected_type # "Unknown")]

\* validate_employment_node, "Validate existing type"
employment_validated(s, validated_type, original_enum) ==
    IF validated_type = "Unknown"
    THEN [s EXCEPT !.employment_type = original_enum, !.employment_corrected = FALSE]
    ELSE [s EXCEPT !.employment_type = validated_type,
                   !.employment_corrected = (original_enum # validated_type)]

\* validate_employment_node
validate_employment_node(s, ctor_ok, llm) ==
    LET original_type == s.original_employment_type
    IN  IF ~ctor_ok THEN EmploymentExcept(s)
        ELSE IF NoOriginal(original_type)
        THEN Returns(employment_detected(s, validate_employment_type(s.content, llm)))
        ELSE LET validated_type == validate_employment_type(s.content, llm)
                 original_enum == map_to_employment_type(original_type)
             IN  IF original_enum = AttributeError THEN EmploymentExcept(s)
                 ELSE Returns(employment_validated(s, validated_type, original_enum))

(***************************************************************************)
(* Whether the chain a node calls catches an exception of its own steps    *)
(* (the `except Exception` of the chain method, and of the salary parser): *)
(* the LLM is consulted and the call raises, or the reply does not parse.  *)
(***************************************************************************)
experience_chain_fails(s, ctor_ok, llm) ==
    ctor_ok /\ _extract_years_with_keywords(s.content) < 0 /\ llm.status = "raise"

\* extract_salary_node reaches "Extract from content": the chain is built and
\* the original salary text gives no range
salary_chain_called(s, ctor_ok) ==
    /\ ctor_ok
    /\ ~(HasText(s.original_salary_range)
         /\ _extract_salary_with_regex(s.original_salary_range) # NoneSalary)

salary_chain_fails(s, ctor_ok, llm) ==
    /\ salary_chain_called(s, ctor_ok)
    /\ _extract_salary_with_regex(s.content.salary) = NoneSalary
    /\ \/ llm.status = "raise"
       \/ llm.status = "ok" /\ (llm.min.kind = "words" \/ llm.max.kind = "words")

location_chain_fails(s, ctor_ok, llm) ==
    /\ ctor_ok
    /\ _detect_location_type_with_keywords(s.content) = "Unknown"
    /\ llm.status = "raise"

employment_chain_fails(s, ctor_ok, llm) ==
    /\ ctor_ok
    /\ _detect_employment_type_with_keywords(s.content) = "Unknown"
    /\ llm.status = "raise"

(***************************************************************************)
(* graph.py: the workflow and process_job.                                 *)
(***************************************************************************)
\* initialize_state_node; state.get("processing_errors", []) gives the key its
\* default when the state has none
initialize_state_node(s) ==
    [(IF "processing_errors" \in DOMAIN s THEN s ELSE s @@ [processing_errors |-> <<>>])
        EXCEPT !.processing_complete = FALSE,
              !.salary_corrected = FALSE,
              !.location_corrected = FALSE,
              !.employment_corrected = FALSE]

\* finalize_state_node
finalize_state_node(s) == [s EXCEPT !.processing_complete = TRUE]

EntryPoint == "initialize"

\* Faulty variant of the workflow: the edge out of extract_salary skips
\* validate_location.
EdgesSkipLocation ==
    {<<"initialize", "extract_experience">>,
     <<"extract_experience", "extract_salary">>,
     <<"extract_salary", "validate_employment">>,
     <<"validate_location", "validate_employment">>,
     <<"validate_employment", "finalize">>,
     <<"finalize", "END">>}

\* JobCleaningGraph._build_workflow: the add_edge calls
Edges ==
    {<<"initialize", "extract_experience">>,
     <<"extract_experience", "extract_salary">>,
     <<"extract_salary", "validate_location">>,
     <<"validate_location", "validate_employment">>,
     <<"validate_employment", "finalize">>,
     <<"finalize", "END">>}

\* the node the workflow runs after `node` has returned
Successor(node) == CHOOSE n \in {e[2] : e \in Edges} : <<node, n>> \in Edges

\* Faulty variant of the initial state: the processing_errors key is left out.
initial_state_without_errors(job) ==
    [job_id |-> IF "id" \in DOMAIN job THEN job.id ELSE "",
     company |-> job.company,
     title |-> job.title,
     location |-> job.location,
     content |-> job.content,
     original_work_location_type |-> job.work_location_type,
     original_employment_type |-> job.employment_type,
     original_salary_range |-> job.salary_range,
     min_years_experience |-> NoneNum,
     experience_level |-> NoneEnum,
     experience_level_label |-> NoneEnum,
     salary_range |-> NoneSalary,
     salary_corrected |-> FALSE,
     work_location_type |-> NoneEnum,
     location_corrected |-> FALSE,
     employment_type |-> NoneEnum,
     employment_corrected |-> FALSE,
     processing_complete |-> FALSE]

\* process_job: the initial state built from job_data
initial_state(job) ==
    [job_id |-> IF "id" \in DOMAIN job THEN job.id ELSE "",
     company |-> job.company,
     title |-> job.title,
     location |-> job.location,
     content |-> job.content,
     original_work_location_type |-> job.work_location_type,
     original_employment_type |-> job.employment_type,
     original_salary_range |-> job.salary_range,
     min_years_experience |-> NoneNum,
     experience_level |-> NoneEnum,
     experience_level_label |-> NoneEnum,
     salary_range |-> NoneSalary,
     salary_corrected |-> FALSE,
     work_location_type |-> NoneEnum,
     location_corrected |-> FALSE,
     employment_type |-> NoneEnum,
     employment_corrected |-> FALSE,
     processing_errors |-> <<>>,
     processing_complete |-> FALSE]

\* JobCleaningGraph._state_to_dict: the original row with the cleaned fields
\* added (work_location_type and employment_type are overwritten)
_state_to_dict(s, original_data) ==
    [min_years_experience |-> s.min_years_experience,
     experience_level |-> s.experience_level,
     experience_level_label |-> s.experience_level_label,
     min_salary |-> IF s.salary_range # NoneSalary
                    THEN s.salary_range.min_salary ELSE NoneNum,
     max_salary |-> IF s.salary_range # NoneSalary
                    THEN s.salary_range.max_salary ELSE NoneNum,
     mid_salary |-> IF s.salary_range # NoneSalary
                    THEN s.salary_range.mid_salary ELSE NoneNum,
     salary_currency |-> IF s.salary_range # NoneSalary
                         THEN s.salary_range.currency ELSE NoneEnum,
     salary_period |-> IF s.salary_range # NoneSalary
                       THEN s.salary_range.period ELSE NoneEnum,
     salary_corrected |-> s.salary_corrected,
     work_location_type |-> s.work_location_type,
     location_corrected |-> s.location_corrected,
     employment_type |-> s.employment_type,
     employment_corrected |-> s.employment_corrected,
     processing_errors |-> IF s.processing_errors # <<>>
                           THEN s.processing_errors ELSE NoneStr,
     processing_complete |-> s.processing_complete]
    @@ original_data

\* the except block of process_dataframe: the original row with an error flag
error_dict(original_data, e) == [processing_error |-> e] @@ original_data

(***************************************************************************)
(* Inputs: the rows of the jobs table and what the LLM may reply.          *)
(***************************************************************************)
Str_Full_time == <<"F","u","l","l","-","t","i","m","e">>
Str_Temporary == <<"T","e","m","p","o","r","a","r","y">>
Str_Remote == <<"R","e","m","o","t","e">>
Str_Hybrid == <<"H","y","b","r","i","d">>
Str_Other == <<"O","t","h","e","r">>
Str_blank == <<" ">>

OriginalLocations == {NoneStr, <<>>, Str_blank, Str_Remote, Str_Other}
OriginalEmployments == {NoneStr, <<>>, Str_blank, Str_Full_time, Str_Temporary}

Text_80_120 == RangeText(TRUE, "-", FALSE, FALSE, <<80, 0>>, <<120, 0>>, FALSE)
Text_120_80 == RangeText(TRUE, "-", FALSE, FALSE, <<120, 0>>, <<80, 0>>, FALSE)
Text_90K_130K == RangeText(TRUE, "to", TRUE, FALSE, <<90>>, <<130>>, FALSE)

OriginalSalaries == {NoneText, BlankText, Text_80_120}

Contents ==
    {Content(5, {"hybrid", "full-time"}, Text_80_120),
     Content(NoneNum, {}, WordsText(FALSE)),
     Content(NoneNum, {"senior", "remote", "fully remote"}, Text_90K_130K)}

Row(id, content, loc, emp, sal) ==
    [id |-> id, company |-> "TechCorp", title |-> "Engineer", location |-> "Austin, TX",
     content |-> content, work_location_type |-> loc, employment_type |-> emp,
     salary_range |-> sal]

Rows ==
    {Row("job-1", c, l, e, s) :
        c \in Contents, l \in OriginalLocations, e \in OriginalEmployments,
        s \in OriginalSalaries}

BatchRows ==
    {Row("job-1", Content(5, {"hybrid", "full-time"}, Text_80_120),
         Str_Hybrid, Str_Full_time, Text_80_120),
     Row("job-2", Content(2, {"on-site", "contract"}, Text_120_80),
         NoneStr, Str_Temporary, NoneText)}

ExperienceReplies ==
    {[status |-> "ok", numbers |-> n] : n \in {<<>>, <<3, 5>>}}

LocationReplies ==
    {[status |-> "ok", kw |-> k] : k \in {{}, {"remote"}, {"hybrid", "office"}}}

EmploymentReplies ==
    {[status |-> "ok", kw |-> k] : k \in {{}, {"full-time"}, {"intern"}}}

GraphSalaryReplies ==
    {r \in SalaryReplies :
        /\ r.currency = "null" /\ r.period = "null"
        /\ r.min \in {[kind |-> "null"], [kind |-> "words"],
                      [kind |-> "number", groups |-> <<90, 0>>]}
        /\ r.max \in {[kind |-> "null"], [kind |-> "number", groups |-> <<130, 0>>]}
        /\ r.min.kind = "words" => r.max.kind = "null"}

(***************************************************************************)
(* process_dataframe: one action per step of the loop and per graph node.  *)
(***************************************************************************)
\* no validation chain has returned yet for the current job
NoDetection == [location |-> NoneEnum, employment |-> NoneEnum, salary |-> <<>>]

Nodes == {"initialize", "extract_experience", "extract_salary", "validate_location",
          "validate_employment", "finalize"}

SalaryIdle ==
    /\ sal_text = NoneText
    /\ sal_regex = NotCalled
    /\ sal_result = NotCalled

LevelIdle ==
    /\ exp_years = <<>>
    /\ exp_levels = <<>>

\* DatabaseManager._initialize_database on a new file: the tables are empty
DatabaseEmpty ==
    /\ job_runs = <<>>
    /\ jobs_table = <<>>
    /\ companies = <<>>
    /\ uuid = 0

ParserIdle ==
    /\ parse_pc = "idle"
    /\ job_run = 0
    /\ pages = 0
    /\ page_i = 0
    /\ total_jobs = 0
    /\ page_log = <<>>
    /\ job_ids = {}
    /\ unique_job_ids = <<>>
    /\ jobs = <<>>
    /\ net_log = <<>>
    /\ parse_exc = "none"

\* no call has been made on the database alone
NoCall == [op |-> "none"]

CallerIdle ==
    /\ db_calls = 0
    /\ last_call = NoCall
    /\ prev_call = NoCall

\* no chain has been called on its own
ChainsIdle == chain_call = [chain |-> "none"]

\* _extract_job_details has not been called on its own
DetailsIdle ==
    /\ detail_soup = [none |-> TRUE]
    /\ detail_job = [none |-> TRUE]

\* process_database_table is not running and the file holds no other table;
\* process_job has not been called on its own
CleanerIdle ==
    /\ source_table = "none"
    /\ target_table = "none"
    /\ other_tables = <<>>
    /\ invocations = <<>>
    /\ checkpoints = <<>>

Init ==
    /\ \/ /\ df \in {<<r>> : r \in Rows}
          /\ progress_callback = FALSE
       \/ /\ df \in UNION {[1..n -> BatchRows] : n \in 1..MaxRows}
          /\ progress_callback \in BOOLEAN
    /\ idx = 0
    /\ pc = "loop"
    /\ job_data = [none |-> TRUE]
    /\ state = [none |-> TRUE]
    /\ trace = <<>>
    /\ results = <<>>
    /\ raised_in = "none"
    /\ chain_failures = {}
    /\ detected = NoDetection
    /\ SalaryIdle
    /\ LevelIdle
    /\ DatabaseEmpty
    /\ ParserIdle
    /\ CallerIdle
    /\ ChainsIdle
    /\ DetailsIdle
    /\ CleanerIdle

\* for idx, row in df.iterrows(): job_data = row.to_dict(); process_job builds
\* the initial state and invokes the workflow at its entry point
NextRow ==
    /\ pc = "loop"
    /\ idx < Len(df)
    /\ job_data' = df[idx + 1]
    /\ state' = initial_state(df[idx + 1])
    /\ trace' = <<>>
    /\ raised_in' = "none"
    /\ chain_failures' = {}
    /\ detected' = NoDetection
    /\ pc' = EntryPoint
    /\ UNCHANGED <<df, progress_callback, idx, results>>
    /\ UNCHANGED outside_graph

\* the workflow runs `node`, whose outcome is `r`; chain_failed says that the
\* node's chain caught an exception, found is what a validation chain returned
RunNode(node, r, chain_failed, found) ==
    /\ pc = node
    /\ state' = r.state
    /\ chain_failures' = IF chain_failed THEN chain_failures \cup {node} ELSE chain_failures
    /\ detected' = found
    /\ IF r.raised
       THEN /\ pc' = "except"
            /\ raised_in' = node
            /\ trace' = trace
       ELSE /\ pc' = Successor(node)
            /\ raised_in' = raised_in
            /\ trace' = Append(trace, node)
    /\ UNCHANGED <<df, progress_callback, idx, job_data, results>>
    /\ UNCHANGED outside_graph

Initialize ==
    RunNode("initialize", Returns(initialize_state_node(state)), FALSE, detected)

ExtractExperience ==
    \E ctor_ok \in BOOLEAN, llm \in ExperienceReplies \cup {LLMFailure} :
        RunNode("extract_experience", extract_experience_node(state, ctor_ok, llm),
                experience_chain_fails(state, ctor_ok, llm), detected)

ExtractSalary ==
    \E ctor_ok \in BOOLEAN, llm \in GraphSalaryReplies \cup {LLMFailure} :
        RunNode("extract_salary", extract_salary_node(state, ctor_ok, llm),
                salary_chain_fails(state, ctor_ok, llm),
                IF salary_chain_called(state, ctor_ok)
                THEN [detected EXCEPT
                        !.salary = <<extract_salary_range(state.content.salary, llm)>>]
                ELSE detected)

ValidateLocation ==
    \E ctor_ok \in BOOLEAN, llm \in LocationReplies \cup {LLMFailure} :
        RunNode("validate_location", validate_location_node(state, ctor_ok, llm),
                location_chain_fails(state, ctor_ok, llm),
                IF ctor_ok
                THEN [detected EXCEPT !.location = validate_location_type(state.content, llm)]
                ELSE detected)

ValidateEmployment ==
    \E ctor_ok \in BOOLEAN, llm \in EmploymentReplies \cup {LLMFailure} :
        RunNode("validate_employment", validate_employment_node(state, ctor_ok, llm),
                employment_chain_fails(state, ctor_ok, llm),
                IF ctor_ok
                THEN [detected EXCEPT
                        !.employment = validate_employment_type(state.content, llm)]
                ELSE detected)

Finalize == RunNode("finalize", Returns(finalize_state_node(state)), FALSE, detected)

\* process_job has returned: the result row is appended, then the progress
\* callback, if there is one, is called; it returns or raises
Collect ==
    /\ pc = "END"
    /\ results' = Append(results, _state_to_dict(state, job_data))
    /\ \E callback_ok \in BOOLEAN :
          IF progress_callback /\ ~callback_ok
          THEN /\ pc' = "except"
               /\ raised_in' = "progress_callback"
               /\ idx' = idx
          ELSE /\ pc' = "loop"
               /\ raised_in' = raised_in
               /\ idx' = idx + 1
    /\ UNCHANGED <<df, progress_callback, job_data, state, trace, chain_failures, detected>>
    /\ UNCHANGED outside_graph

\* the except block of the loop: the original row is appended with an error
\* flag, then the progress callback is called again; if it raises, the
\* exception leaves process_dataframe
HandleError ==
    /\ pc = "except"
    /\ results' = Append(results, error_dict(job_data, raised_in))
    /\ \E callback_ok \in BOOLEAN :
          IF progress_callback /\ ~callback_ok
          THEN /\ pc' = "raised"
               /\ idx' = idx
          ELSE /\ pc' = "loop"
               /\ idx' = idx + 1
    /\ UNCHANGED <<df, progress_callback, job_data, state, trace, raised_in,
                   chain_failures, detected>>
    /\ UNCHANGED outside_graph

\* return pd.DataFrame(results)
Return ==
    /\ pc = "loop"
    /\ idx = Len(df)
    /\ pc' = "returned"
    /\ UNCHANGED <<df, progress_callback, idx, job_data, state, trace, results, raised_in,
                   chain_failures, detected>>
    /\ UNCHANGED outside_graph

Next ==
    \/ NextRow
    \/ Initialize
    \/ ExtractExperience
    \/ ExtractSalary
    \/ ValidateLocation
    \/ ValidateEmployment
    \/ Finalize
    \/ Collect
    \/ HandleError
    \/ Return

Spec == Init /\ [][Next]_vars

(***************************************************************************)
(* The salary chain on its own: a text is chosen, then the regex step and  *)
(* the whole chain are applied to it.                                      *)
(***************************************************************************)
GraphIdle ==
    /\ df = <<>>
    /\ progress_callback = FALSE
    /\ idx = 0
    /\ pc = "idle"
    /\ job_data = [none |-> TRUE]
    /\ state = [none |-> TRUE]
    /\ trace = <<>>
    /\ results = <<>>
    /\ raised_in = "none"
    /\ chain_failures = {}
    /\ detected = NoDetection

InitSalary ==
    /\ GraphIdle
    /\ LevelIdle
    /\ DatabaseEmpty
    /\ ParserIdle
    /\ CallerIdle
    /\ ChainsIdle
    /\ DetailsIdle
    /\ CleanerIdle
    /\ sal_text \in ContentTexts
    /\ sal_regex = NotCalled
    /\ sal_result = NotCalled

CallRegex ==
    /\ pc = "idle"
    /\ sal_regex = NotCalled
    /\ sal_regex' = _extract_salary_with_regex(sal_text)
    /\ UNCHANGED <<sal_text, sal_result>>
    /\ UNCHANGED outside_salary

CallChain ==
    /\ pc = "idle"
    /\ sal_result = NotCalled
    /\ \E llm \in SalaryReplies \cup {LLMFailure} :
          sal_result' = extract_salary_range(sal_text, llm)
    /\ UNCHANGED <<sal_text, sal_regex>>
    /\ UNCHANGED outside_salary

NextSalary == CallRegex \/ CallChain

SpecSalary == InitSalary /\ [][NextSalary]_vars

(***************************************************************************)
(* ExperienceLevel.from_years on its own: two year counts are chosen and   *)
(* classified one after the other, as get_experience_level does for the    *)
(* year count of each job.                                                 *)
(***************************************************************************)
\* the year counts the callers pass: extract_experience_years returns the
\* digits a pattern captured, a keyword's value, or the LLM's number floored to 0
YearCounts == 0..MaxYears

InitLevel ==
    /\ GraphIdle
    /\ SalaryIdle
    /\ DatabaseEmpty
    /\ ParserIdle
    /\ CallerIdle
    /\ ChainsIdle
    /\ DetailsIdle
    /\ CleanerIdle
    /\ exp_years \in [1..2 -> YearCounts]
    /\ exp_levels = <<>>

\* ExperienceExtractionChain.get_experience_level(years)
get_experience_level ==
    /\ pc = "idle"
    /\ Len(exp_levels) < Len(exp_years)
    /\ exp_levels' = Append(exp_levels, from_years(exp_years[Len(exp_levels) + 1]))
    /\ UNCHANGED exp_years
    /\ UNCHANGED outside_level

NextLevel == get_experience_level

SpecLevel == InitLevel /\ [][NextLevel]_vars

(***************************************************************************)
(* linkedin_parser: the tables of database.py and the operations on them.  *)
(* A table is the sequence of its rows in insertion order; a row keeps the *)
(* columns the operations read.  An operation that raises leaves the table *)
(* as it was (get_connection rolls back).                                  *)
(***************************************************************************)
\* Python None, stored as SQL NULL
NULL == "NULL"
IntegrityError == "sqlite3.IntegrityError"
NoError == "none"

\* the values of uuid.uuid4(), in the order they are generated
Uuids ==
    <<"uuid-01", "uuid-02", "uuid-03", "uuid-04", "uuid-05", "uuid-06", "uuid-07",
      "uuid-08", "uuid-09", "uuid-10", "uuid-11", "uuid-12", "uuid-13", "uuid-14",
      "uuid-15", "uuid-16", "uuid-17", "uuid-18", "uuid-19", "uuid-20">>

\* the id the n-th object that asks for one gets
NewId(n) == Uuids[n]

\* None where a Company or a row of companies is expected
NoCompany == [none |-> TRUE]

\* create_job_run: status and job_count take the column defaults
create_job_run(runs) ==
    Append(runs, [status |-> "pending", job_count |-> 0, error_message |-> NULL])

\* update_job_run: UPDATE job_runs SET ... WHERE id = ?
update_job_run(runs, run_id, status, job_count, error_message) ==
    [r \in DOMAIN runs |->
        IF r = run_id
        THEN [status |-> status, job_count |-> job_count, error_message |-> error_message]
        ELSE runs[r]]

\* Job(...) with the fields the tables and the parser read
Job(id, job_id, company, run_id, company_id) ==
    [id |-> id, job_id |-> job_id, company |-> company, run_id |-> run_id,
     company_id |-> company_id]

\* save_job: a plain INSERT; id is the primary key and company is NOT NULL
save_job(table, job) ==
    IF \/ \E k \in DOMAIN table : table[k].id = job.id
       \/ job.company = NULL
    THEN [table |-> table, raised |-> IntegrityError]
    ELSE [table |-> Append(table, job), raised |-> NoError]

\* Company(...)
Company(id, company_name, company_size, followers, industry, company_url) ==
    [id |-> id, company_name |-> company_name, company_size |-> company_size,
     followers |-> followers, industry |-> industry, company_url |-> company_url]

\* Faulty variant of COALESCE: the new value is stored even when it is NULL.
COALESCE_overwrite(new, old) == new

\* SQL COALESCE(?, column)
COALESCE(new, old) == IF new # NULL THEN new ELSE old

\* SELECT ... FROM companies WHERE company_name = ?: the position of the row,
\* 0 if there is none (NULL equals nothing)
company_row(table, company_name) ==
    IF \E k \in DOMAIN table : table[k].company_name = company_name
    THEN CHOOSE k \in DOMAIN table : table[k].company_name = company_name
    ELSE 0

\* get_company_by_name
get_company_by_name(table, company_name) ==
    IF company_row(table, company_name) = 0
    THEN NoCompany
    ELSE table[company_row(table, company_name)]

\* Faulty variant of the update branch: the id of the argument is returned.
updated_company_id_of_argument(existing, company) == company.id

\* save_company, update branch: return existing['id']
updated_company_id(existing, company) == existing.id

\* save_company
save_company(table, company) ==
    LET k == company_row(table, company.company_name) IN
    IF k # 0
    THEN [table |-> [table EXCEPT ![k] =
                       [@ EXCEPT !.company_size = COALESCE(company.company_size, @),
                                 !.followers = COALESCE(company.followers, @),
                                 !.industry = COALESCE(company.industry, @),
                                 !.company_url = COALESCE(company.company_url, @)]],
          id |-> updated_company_id(table[k], company),
          raised |-> NoError]
    ELSE IF \/ company.company_name = NULL
            \/ \E j \in DOMAIN table : table[j].id = company.id
         THEN [table |-> table, id |-> NULL, raised |-> IntegrityError]
         ELSE [table |-> Append(table, company), id |-> company.id, raised |-> NoError]

(***************************************************************************)
(* linkedin_parser: parse_jobs.  A fetch is an input of the action that    *)
(* makes it: the page it returns, an error of the request, or an interrupt *)
(* of the blocking call (KeyboardInterrupt, which is not an Exception).    *)
(***************************************************************************)
JobIds == {"4301", "4302"}
CompanyNames == {"Acme"}
AttributeError_NoneType == "'NoneType' object has no attribute 'replace'"
KeyboardInterrupt == "KeyboardInterrupt"

\* what extract_company_info_from_job_page found: nothing (it returns None), or
\* the fields of the Company it returns, of which at least one is set
CompanyInfos ==
    {[company_size |-> "51-200 employees", followers |-> NULL, industry |-> NULL,
      company_url |-> NULL],
     [company_size |-> NULL, followers |-> NULL, industry |-> NULL,
      company_url |-> "linkedin.com/company/acme"]}

\* the outcomes of the fetch of one job-detail page and of the extraction:
\*  - the request raises; the call is interrupted;
\*  - _extract_job_details returns None;
\*  - it returns a Job: company is the alt text of the logo (None when the
\*    attribute is missing), company_info what the company parser found,
\*    company_sleep whether _get_company_page_info fetched the company page
\*    and slept (it is called only when a company link was found)
DetailPages ==
    {[kind |-> k] : k \in {"http_error", "interrupt", "no_details"}}
    \cup {page \in [kind : {"job"}, company : CompanyNames \cup {NULL},
                     company_info : CompanyInfos \cup {NoCompany},
                     company_sleep : BOOLEAN] :
             page.company_sleep =>
                 /\ page.company_info # NoCompany
                 /\ page.company_info.company_url # NULL}

\* _extract_job_details, lines 296-331: the company fields put into job_info.
\* They are the fields of company_info when the page gave one, the fields of
\* the row found by name otherwise, and None for a new basic company or when
\* save_company raised
company_snapshot(company_info, existing_company, saved) ==
        IF company_info # NoCompany
        THEN IF saved.raised # NoError
             THEN [company_size |-> NULL, company_followers |-> NULL,
                   company_industry |-> NULL]
             ELSE [company_size |-> company_info.company_size,
                   company_followers |-> company_info.followers,
                   company_industry |-> company_info.industry]
        ELSE IF existing_company # NoCompany
        THEN [company_size |-> existing_company.company_size,
              company_followers |-> existing_company.followers,
              company_industry |-> existing_company.industry]
        ELSE [company_size |-> NULL, company_followers |-> NULL, company_industry |-> NULL]

\* _extract_job_details, lines 296-331 and 413-437: the company is saved or
\* looked up, then the Job is built; n is the number of uuids generated so far
_extract_job_details(table, n, job_id, run_id, page) ==
    LET company_info == page.company_info
        existing_company == get_company_by_name(table, page.company)
        new_company ==
            IF company_info # NoCompany
            THEN Company(NewId(n + 1), page.company, company_info.company_size,
                         company_info.followers, company_info.industry,
                         company_info.company_url)
            ELSE Company(NewId(n + 1), page.company, NULL, NULL, NULL, NULL)
        saved == save_company(table, new_company)
        looked_up == company_info = NoCompany /\ existing_company # NoCompany
        company_id == IF looked_up THEN existing_company.id ELSE saved.id
        n2 == IF looked_up THEN n ELSE n + 1
    IN [companies |-> IF looked_up THEN table ELSE saved.table,
        uuid |-> n2 + 1,
        job |-> Job(NewId(n2 + 1), job_id, page.company, run_id, company_id),
        snapshot |-> company_snapshot(company_info, existing_company, saved)]

\* list(set(job_ids)): the ids without duplicates, in some order
Orderings(S) ==
    {seq \in [1..Cardinality(S) -> S] : \A a, b \in DOMAIN seq : seq[a] = seq[b] => a = b}

\* the numbers of jobs asked for: one, one more than each number of full
\* pages, and the last page full
TotalJobs == {1} \cup {25 * k + 1 : k \in 1..(MaxPages - 1)} \cup {25 * MaxPages}

\* math.ceil(a / b)
ceil_div(a, b) == (a + b - 1) \div b

\* Faulty variant of the offset: the pages are counted from 1.
page_start_from_one(i) == (i + 1) * 25

\* page_url = url.format(i * 25)
page_start(i) == i * 25

\* parse_jobs is called: create_job_run, then _get_job_ids builds the URL and
\* the page count from its arguments; a None location or query raises there
parse_jobs ==
    /\ parse_pc \in {"idle", "returned", "raised"}
    /\ Len(job_runs) < MaxRuns
    /\ job_runs' = create_job_run(job_runs)
    /\ job_run' = Len(job_runs) + 1
    /\ page_i' = 0
    /\ job_ids' = {}
    /\ unique_job_ids' = <<>>
    /\ jobs' = <<>>
    /\ net_log' = <<>>
    /\ page_log' = <<>>
    /\ \E args_ok \in BOOLEAN, total \in TotalJobs :
          /\ total_jobs' = total
          /\ IF args_ok
             THEN /\ parse_pc' = "_get_job_ids"
                  /\ pages' = ceil_div(total, 25)
                  /\ parse_exc' = NoError
             ELSE /\ parse_pc' = "except"
                  /\ pages' = 0
                  /\ parse_exc' = AttributeError_NoneType
    /\ UNCHANGED <<jobs_table, companies, uuid>>
    /\ UNCHANGED outside_parser

\* _get_job_ids: one iteration of the loop over the search pages
FetchPage ==
    /\ parse_pc = "_get_job_ids"
    /\ page_i < pages
    /\ page_i' = page_i + 1
    /\ \E outcome \in {"ok", "http_error", "interrupt"}, page_job_ids \in SUBSET JobIds :
          /\ outcome # "ok" => page_job_ids = {}
          /\ job_ids' = job_ids \cup page_job_ids
          /\ page_log' = Append(page_log, [start |-> page_start(page_i), outcome |-> outcome,
                                            job_ids |-> page_job_ids])
          /\ net_log' = net_log \o (IF outcome = "ok" THEN <<"page", "sleep">> ELSE <<"page">>)
          /\ parse_pc' = IF outcome = "interrupt" THEN "raised" ELSE parse_pc
          /\ parse_exc' = IF outcome = "interrupt" THEN KeyboardInterrupt ELSE parse_exc
    /\ UNCHANGED <<job_run, pages, unique_job_ids, jobs, total_jobs>>
    /\ UNCHANGED database_vars
    /\ UNCHANGED outside_parser

\* _get_job_ids returns the unique ids and _get_job_data starts
ReturnJobIds ==
    /\ parse_pc = "_get_job_ids"
    /\ page_i = pages
    /\ unique_job_ids' \in Orderings(job_ids)
    /\ parse_pc' = "_get_job_data"
    /\ UNCHANGED <<job_run, pages, page_i, job_ids, jobs, net_log, parse_exc, total_jobs,
                   page_log>>
    /\ UNCHANGED database_vars
    /\ UNCHANGED outside_parser

\* _get_job_data: one iteration of the loop over the job ids
FetchJob ==
    /\ parse_pc = "_get_job_data"
    /\ unique_job_ids # <<>>
    /\ unique_job_ids' = Tail(unique_job_ids)
    /\ \E page \in DetailPages :
          LET d == _extract_job_details(companies, uuid, Head(unique_job_ids), job_run, page)
              s == save_job(jobs_table, d.job)
          IN CASE page.kind = "http_error" ->
                    /\ net_log' = Append(net_log, "job")
                    /\ UNCHANGED <<parse_pc, parse_exc, jobs, jobs_table, companies, uuid>>
               [] page.kind = "interrupt" ->
                    /\ net_log' = Append(net_log, "job")
                    /\ parse_pc' = "raised"
                    /\ parse_exc' = KeyboardInterrupt
                    /\ UNCHANGED <<jobs, jobs_table, companies, uuid>>
               [] page.kind = "no_details" ->
                    /\ net_log' = net_log \o <<"job", "sleep">>
                    /\ UNCHANGED <<parse_pc, parse_exc, jobs, jobs_table, companies, uuid>>
               [] page.kind = "job" ->
                    /\ companies' = d.companies
                    /\ uuid' = d.uuid
                    /\ jobs' = Append(jobs, d.job)
                    /\ jobs_table' = s.table
                    /\ net_log' = net_log \o <<"job">>
                                    \o (IF page.company_sleep THEN <<"company_sleep">> ELSE <<>>)
                                    \o (IF s.raised = NoError THEN <<"sleep">> ELSE <<>>)
                    /\ UNCHANGED <<parse_pc, parse_exc>>
    /\ UNCHANGED <<job_runs, job_run, pages, page_i, job_ids, total_jobs, page_log>>
    /\ UNCHANGED outside_parser

\* _get_job_data returns, the run is updated and parse_jobs returns jobs
ReturnJobs ==
    /\ parse_pc = "_get_job_data"
    /\ unique_job_ids = <<>>
    /\ job_runs' = update_job_run(job_runs, job_run, "completed", Len(jobs), NULL)
    /\ parse_pc' = "returned"
    /\ UNCHANGED <<jobs_table, companies, uuid>>
    /\ UNCHANGED <<job_run, pages, page_i, job_ids, unique_job_ids, jobs, net_log, parse_exc,
                   total_jobs, page_log>>
    /\ UNCHANGED outside_parser

\* the except block of parse_jobs: the run is updated with the message and
\* the exception is raised again; the jobs of parse_jobs is still the empty list
RunFailed ==
    /\ parse_pc = "except"
    /\ job_runs' = update_job_run(job_runs, job_run, "failed", 0, parse_exc)
    /\ parse_pc' = "raised"
    /\ UNCHANGED <<jobs_table, companies, uuid>>
    /\ UNCHANGED <<job_run, pages, page_i, job_ids, unique_job_ids, jobs, net_log, parse_exc,
                   total_jobs, page_log>>
    /\ UNCHANGED outside_parser

InitParser ==
    /\ GraphIdle
    /\ SalaryIdle
    /\ LevelIdle
    /\ DatabaseEmpty
    /\ ParserIdle
    /\ CallerIdle
    /\ ChainsIdle
    /\ DetailsIdle
    /\ CleanerIdle

NextParser ==
    \/ parse_jobs
    \/ FetchPage
    \/ ReturnJobIds
    \/ FetchJob
    \/ ReturnJobs
    \/ RunFailed

SpecParser == InitParser /\ [][NextParser]_vars

(***************************************************************************)
(* company_enrichment.py: CompanyEnrichmentService.  Each operation        *)
(* returns the companies table and the uuid count it leaves, its result,   *)
(* and the exception it raises, if any.                                    *)
(***************************************************************************)
\* job_soup=None
NoSoup == [none |-> TRUE]

\* a job page, as far as the service reads it: what
\* extract_company_info_from_job_page returns for it
JobSoups == [company_info : CompanyInfos \cup {NoCompany}]

NoResult == [none |-> TRUE]

CompanyEnrichmentResult(company_id, was_existing, was_enriched) ==
    [company_id |-> company_id, was_existing |-> was_existing, was_enriched |-> was_enriched]

\* `if job_soup:` followed by `if company_info:`
FoundInfo(job_soup) == job_soup # NoSoup /\ job_soup.company_info # NoCompany

\* the Company extract_company_info_from_job_page builds, with the n-th uuid
ExtractedCompany(n, company_name, job_soup) ==
    Company(NewId(n), company_name, job_soup.company_info.company_size,
            job_soup.company_info.followers, job_soup.company_info.industry,
            job_soup.company_info.company_url)

\* Company(company_name=company_name)
BasicCompany(n, company_name) == Company(NewId(n), company_name, NULL, NULL, NULL, NULL)

\* _needs_enrichment: none of the key fields holds a value
_needs_enrichment(company_data) ==
    /\ company_data.company_size \in {NULL, ""}
    /\ company_data.followers \in {NULL, ""}
    /\ company_data.industry \in {NULL, ""}
    /\ company_data.company_url \in {NULL, ""}

\* Faulty variant of _enrich_existing_company: it reports an enrichment even
\* when it found nothing to add.
_enrich_existing_company_always(table, n, existing_company, job_soup) ==
    [companies |-> table, uuid |-> n,
     result |-> CompanyEnrichmentResult(existing_company.id, TRUE, TRUE),
     raised |-> NoError]

\* _enrich_existing_company
_enrich_existing_company(table, n, existing_company, job_soup) ==
    IF FoundInfo(job_soup)
    THEN LET saved == save_company(table, ExtractedCompany(n + 1, existing_company.company_name,
                                                           job_soup))
         IN IF saved.raised = NoError
            THEN [companies |-> saved.table, uuid |-> n + 1,
                  result |-> CompanyEnrichmentResult(saved.id, TRUE, TRUE),
                  raised |-> NoError]
            ELSE [companies |-> table, uuid |-> n + 1,
                  result |-> CompanyEnrichmentResult(existing_company.id, TRUE, FALSE),
                  raised |-> NoError]
    ELSE [companies |-> table, uuid |-> n,
          result |-> CompanyEnrichmentResult(existing_company.id, TRUE, FALSE),
          raised |-> NoError]

\* _create_and_enrich_company: an exception of save_company is raised again
_create_and_enrich_company(table, n, company_name, job_soup) ==
    LET company == IF FoundInfo(job_soup)
                   THEN ExtractedCompany(n + 1, company_name, job_soup)
                   ELSE BasicCompany(n + 1, company_name)
        saved == save_company(table, company)
    IN IF saved.raised = NoError
       THEN [companies |-> saved.table, uuid |-> n + 1,
             result |-> CompanyEnrichmentResult(saved.id, FALSE, FoundInfo(job_soup)),
             raised |-> NoError]
       ELSE [companies |-> table, uuid |-> n + 1, result |-> NoResult,
             raised |-> saved.raised]

\* get_or_enrich_company; its except block saves a basic company
get_or_enrich_company(table, n, company_name, job_soup) ==
    LET existing_company == get_company_by_name(table, company_name)
        tried == IF existing_company # NoCompany
                 THEN IF _needs_enrichment(existing_company)
                      THEN _enrich_existing_company(table, n, existing_company, job_soup)
                      ELSE [companies |-> table, uuid |-> n,
                            result |-> CompanyEnrichmentResult(existing_company.id, TRUE, FALSE),
                            raised |-> NoError]
                 ELSE _create_and_enrich_company(table, n, company_name, job_soup)
        fallback == save_company(tried.companies, BasicCompany(tried.uuid + 1, company_name))
    IN IF tried.raised = NoError
       THEN tried
       ELSE IF fallback.raised = NoError
            THEN [companies |-> fallback.table, uuid |-> tried.uuid + 1,
                  result |-> CompanyEnrichmentResult(fallback.id, FALSE, FALSE),
                  raised |-> NoError]
            ELSE [companies |-> tried.companies, uuid |-> tried.uuid + 1,
                  result |-> NoResult, raised |-> fallback.raised]

(***************************************************************************)
(* The persistence operations on their own: a caller makes up to MaxCalls  *)
(* calls of save_job, save_company and get_or_enrich_company on a new      *)
(* database.                                                               *)
(***************************************************************************)
\* the arguments of the calls
SavedNames == {"Acme", "Globex"}

CompanyFields ==
    {[company_size |-> NULL, followers |-> NULL, industry |-> NULL, company_url |-> NULL],
     [company_size |-> "51-200 employees", followers |-> NULL, industry |-> NULL,
      company_url |-> NULL],
     [company_size |-> "201-500 employees", followers |-> "1,000 followers",
      industry |-> NULL, company_url |-> NULL],
     [company_size |-> NULL, followers |-> NULL, industry |-> "Software",
      company_url |-> "linkedin.com/company/acme"],
     [company_size |-> "51-200 employees", followers |-> "1,000 followers",
      industry |-> "Software", company_url |-> "linkedin.com/company/acme"]}

\* the ids a Job passed to save_job can have: a new uuid, or the id of a Job
\* that was saved before (the same object saved again)
JobObjectIds == {NewId(uuid + 1)} \cup {jobs_table[k].id : k \in DOMAIN jobs_table}

InitDatabase ==
    /\ GraphIdle
    /\ SalaryIdle
    /\ LevelIdle
    /\ ParserIdle
    /\ DatabaseEmpty
    /\ CallerIdle
    /\ ChainsIdle
    /\ DetailsIdle
    /\ CleanerIdle

\* what is kept of a call when the next one is made
Summary(call) ==
    IF call.op = "get_or_enrich_company"
    THEN [op |-> call.op, company_name |-> call.company_name, job_soup |-> call.job_soup,
          result |-> call.result, raised |-> call.raised]
    ELSE [op |-> call.op]

\* database.save_job(job)
SaveJob ==
    /\ parse_pc = "idle"
    /\ db_calls < MaxCalls
    /\ \E id \in JobObjectIds, job_id \in JobIds, company \in CompanyNames \cup {NULL} :
          LET job == Job(id, job_id, company, NULL, NULL)
              s == save_job(jobs_table, job)
          IN /\ jobs_table' = s.table
             /\ uuid' = IF id = NewId(uuid + 1) THEN uuid + 1 ELSE uuid
             /\ last_call' = [op |-> "save_job", job |-> job, raised |-> s.raised,
                              before |-> jobs_table]
    /\ prev_call' = Summary(last_call)
    /\ db_calls' = db_calls + 1
    /\ UNCHANGED <<job_runs, companies>>
    /\ UNCHANGED outside_database

\* database.save_company(Company(...))
SaveCompany ==
    /\ parse_pc = "idle"
    /\ db_calls < MaxCalls
    /\ \E company_name \in SavedNames \cup {NULL}, f \in CompanyFields :
          LET company == Company(NewId(uuid + 1), company_name, f.company_size, f.followers,
                                 f.industry, f.company_url)
              s == save_company(companies, company)
          IN /\ companies' = s.table
             /\ last_call' = [op |-> "save_company", company |-> company, id |-> s.id,
                              raised |-> s.raised, before |-> companies]
    /\ uuid' = uuid + 1
    /\ prev_call' = Summary(last_call)
    /\ db_calls' = db_calls + 1
    /\ UNCHANGED <<job_runs, jobs_table>>
    /\ UNCHANGED outside_database

\* service.get_or_enrich_company(company_name, job_soup)
GetOrEnrichCompany ==
    /\ parse_pc = "idle"
    /\ db_calls < MaxCalls
    /\ \E company_name \in SavedNames \cup {NULL}, job_soup \in JobSoups \cup {NoSoup} :
          LET r == get_or_enrich_company(companies, uuid, company_name, job_soup)
          IN /\ companies' = r.companies
             /\ uuid' = r.uuid
             /\ last_call' = [op |-> "get_or_enrich_company", company_name |-> company_name,
                              job_soup |-> job_soup, result |-> r.result,
                              raised |-> r.raised, before |-> companies]
    /\ prev_call' = Summary(last_call)
    /\ db_calls' = db_calls + 1
    /\ UNCHANGED <<job_runs, jobs_table>>
    /\ UNCHANGED outside_database

NextDatabase ==
    \/ SaveJob
    \/ SaveCompany
    \/ GetOrEnrichCompany

SpecDatabase == InitDatabase /\ [][NextDatabase]_vars

(***************************************************************************)
(* graph.py: process_database_table.  The jobs are read from the source    *)
(* table of the file, run through process_dataframe, and the result is     *)
(* written to the target table.  The file holds the jobs table and the     *)
(* tables of other_tables, a function from their names to their rows.      *)
(***************************************************************************)
TableNames == {"jobs", "cleaned_jobs"}

\* the table exists in the file
TableExists(table_name) == table_name = "jobs" \/ table_name \in DOMAIN other_tables

\* load_from_database: SELECT * FROM table_name
load_from_database(table_name) ==
    IF table_name = "jobs" THEN jobs_table ELSE other_tables[table_name]

\* the rows of the jobs table before a cleaning run
StoredJobs == {<<r>> : r \in BatchRows}

\* the rows a cleaned_jobs table of an earlier run can hold
EarlierResults == {<<error_dict(r, "validate_employment")>> : r \in BatchRows}

InitCleaner ==
    /\ df = <<>>
    /\ progress_callback = FALSE
    /\ idx = 0
    /\ pc = "process_database_table"
    /\ job_data = [none |-> TRUE]
    /\ state = [none |-> TRUE]
    /\ trace = <<>>
    /\ results = <<>>
    /\ raised_in = "none"
    /\ chain_failures = {}
    /\ detected = NoDetection
    /\ SalaryIdle
    /\ LevelIdle
    /\ ParserIdle
    /\ CallerIdle
    /\ ChainsIdle
    /\ DetailsIdle
    /\ job_runs = <<>>
    /\ companies = <<>>
    /\ uuid = 0
    /\ jobs_table \in StoredJobs
    /\ source_table \in TableNames
    /\ target_table \in TableNames
    /\ \/ other_tables = <<>>
       \/ other_tables \in [{"cleaned_jobs"} -> EarlierResults]
    /\ invocations = <<>>
    /\ checkpoints = <<>>

\* process_database_table: df = self.load_from_database(db_path, source_table);
\* the query raises when the table does not exist
LoadFromDatabase ==
    /\ pc = "process_database_table"
    /\ IF TableExists(source_table)
       THEN /\ df' = load_from_database(source_table)
            /\ pc' = "loop"
       ELSE /\ df' = df
            /\ pc' = "raised"
    /\ UNCHANGED <<progress_callback, idx, job_data, state, trace, results, raised_in,
                   chain_failures, detected>>
    /\ UNCHANGED outside_graph

\* save_to_database: df.to_sql(table_name, conn, if_exists="replace")
SaveToDatabase ==
    /\ pc = "returned"
    /\ target_table \in TableNames
    /\ IF target_table = "jobs"
       THEN /\ jobs_table' = results
            /\ other_tables' = other_tables
       ELSE /\ jobs_table' = jobs_table
            /\ other_tables' = [t \in DOMAIN other_tables \cup {target_table} |->
                                   IF t = target_table THEN results ELSE other_tables[t]]
    /\ pc' = "saved"
    /\ UNCHANGED <<df, progress_callback, idx, job_data, state, trace, results, raised_in,
                   chain_failures, detected>>
    /\ UNCHANGED <<job_runs, companies, uuid, source_table, target_table>>
    /\ UNCHANGED <<salary_vars, level_vars, parser_vars, caller_vars, thread_vars,
                   detail_vars, chain_call>>

NextCleaner ==
    \/ LoadFromDatabase
    \/ NextRow
    \/ Initialize
    \/ ExtractExperience
    \/ ExtractSalary
    \/ ValidateLocation
    \/ ValidateEmployment
    \/ Finalize
    \/ Collect
    \/ HandleError
    \/ Return
    \/ SaveToDatabase

SpecCleaner == InitCleaner /\ [][NextCleaner]_vars

(***************************************************************************)
(* graph.py: process_job called several times on one JobCleaningGraph.     *)
(* The workflow is compiled with a MemorySaver, and each call names the    *)
(* thread job_data.get("id", "default"): the state saved last under that   *)
(* thread is loaded, the input is written over it key by key (no key of    *)
(* JobCleaningState has a reducer), and the state is saved after the input *)
(* and after every node.  Each call keeps the state it works on to itself. *)
(***************************************************************************)
Invocations == {1, 2}

\* config = {"configurable": {"thread_id": job_data.get("id", "default")}}
thread_id(job) == IF "id" \in DOMAIN job THEN job.id ELSE "default"

\* the row without its id column
WithoutId(row) == [k \in DOMAIN row \ {"id"} |-> row[k]]

\* the jobs of the calls: two rows with the same id, a row with another id,
\* and rows without an id
SharedIdRows ==
    {Row("job-1", Content(5, {"hybrid", "full-time"}, Text_80_120),
         Str_Hybrid, Str_Full_time, Text_80_120),
     Row("job-1", Content(NoneNum, {}, WordsText(FALSE)), NoneStr, NoneStr, NoneText)}

ThreadJobs ==
    SharedIdRows \cup {WithoutId(r) : r \in SharedIdRows}
        \cup {Row("job-2", Content(2, {"on-site", "contract"}, Text_120_80),
                  NoneStr, Str_Temporary, NoneText)}

\* what the chain of a node meets: whether it can be built, and the model's reply
NoAnswer == [ctor_ok |-> TRUE, llm |-> LLMFailure]

ThreadSalaryReplies ==
    {r \in GraphSalaryReplies : r.min.kind = "number" /\ r.max.kind = "number"}

ThreadAnswers(node) ==
    CASE node = "extract_experience" ->
            [ctor_ok : {TRUE}, llm : {[status |-> "ok", numbers |-> <<3, 5>>]}]
      [] node = "extract_salary" ->
            [ctor_ok : {TRUE}, llm : ThreadSalaryReplies \cup {LLMFailure}]
      [] node = "validate_location" ->
            [ctor_ok : BOOLEAN, llm : {[status |-> "ok", kw |-> {"remote"}]}]
      [] node = "validate_employment" ->
            [ctor_ok : {TRUE}, llm : {[status |-> "ok", kw |-> {"intern"}], LLMFailure}]
      [] OTHER -> {NoAnswer}

\* the outcome of the node on state s when its chain meets answer a
NodeOutcome(node, s, a) ==
    CASE node = "initialize" -> Returns(initialize_state_node(s))
      [] node = "extract_experience" -> extract_experience_node(s, a.ctor_ok, a.llm)
      [] node = "extract_salary" -> extract_salary_node(s, a.ctor_ok, a.llm)
      [] node = "validate_location" -> validate_location_node(s, a.ctor_ok, a.llm)
      [] node = "validate_employment" -> validate_employment_node(s, a.ctor_ok, a.llm)
      [] node = "finalize" -> Returns(finalize_state_node(s))

\* ainvoke(initial_state, config): the input is written over the saved state
ApplyInput(saved, input) ==
    [k \in DOMAIN saved \cup DOMAIN input |->
        IF k \in DOMAIN input THEN input[k] ELSE saved[k]]

\* the checkpointer saves the state under the thread id
put(saved, thread, s) ==
    [t \in DOMAIN saved \cup {thread} |-> IF t = thread THEN s ELSE saved[t]]

InitThreads ==
    /\ GraphIdle
    /\ SalaryIdle
    /\ LevelIdle
    /\ DatabaseEmpty
    /\ ParserIdle
    /\ CallerIdle
    /\ ChainsIdle
    /\ DetailsIdle
    /\ source_table = "none"
    /\ target_table = "none"
    /\ other_tables = <<>>
    /\ invocations \in [Invocations ->
                           [pc : {"process_job"}, job_data : ThreadJobs,
                            state : {[none |-> TRUE]}, restored : {<<>>},
                            answers : {<<>>}]]
    /\ checkpoints = <<>>

\* process_job is called: the initial state is built and the workflow invoked
Invoke(i) ==
    /\ invocations[i].pc = "process_job"
    /\ LET job == invocations[i].job_data
           thread == thread_id(job)
           found == IF thread \in DOMAIN checkpoints THEN <<checkpoints[thread]>> ELSE <<>>
           start == IF found = <<>> THEN initial_state(job)
                    ELSE ApplyInput(found[1], initial_state(job))
       IN  /\ invocations' = [invocations EXCEPT ![i].pc = EntryPoint,
                                                 ![i].state = start,
                                                 ![i].restored = found]
           /\ checkpoints' = put(checkpoints, thread, start)
    /\ UNCHANGED outside_threads

\* the workflow of call i runs its next node
RunThreadNode(i) ==
    /\ invocations[i].pc \in Nodes
    /\ LET node == invocations[i].pc
           thread == thread_id(invocations[i].job_data)
       IN  \E a \in ThreadAnswers(node) :
              LET r == NodeOutcome(node, invocations[i].state, a)
              IN  IF r.raised
                  THEN /\ invocations' = [invocations EXCEPT ![i].pc = "raised"]
                       /\ checkpoints' = checkpoints
                  ELSE /\ invocations' =
                              [invocations EXCEPT
                                  ![i].pc = Successor(node),
                                  ![i].state = r.state,
                                  ![i].answers = Append(invocations[i].answers, a)]
                       /\ checkpoints' = put(checkpoints, thread, r.state)
    /\ UNCHANGED outside_threads

NextThreads == \E i \in Invocations : Invoke(i) \/ RunThreadNode(i)

SpecThreads == InitThreads /\ [][NextThreads]_vars

(***************************************************************************)
(* parser.py: _extract_job_details on one job-detail page.  The page is a  *)
(* record that says, selector by selector, what the lookups of the method  *)
(* find: Missing where find returns None, NULL where the element is there  *)
(* and the attribute read with .get is not, and the text otherwise.        *)
(***************************************************************************)
Missing == "missing"

\* the <li> texts of the criteria list, the labels removed
CriteriaItems == <<"Mid-Senior level", "Full-time", "Engineering", "Software">>

\* find_all("li") of the criteria list: Missing when there is no list, or
\* the first n items
CriteriaLists == {<<Missing>>} \cup {SubSeq(CriteriaItems, 1, n) : n \in 0..4}

Soups ==
    [logo_alt : {Missing, NULL, "Acme"},
     title : {Missing, "Engineer"},
     location : {Missing, "Austin, TX", "Remote"},
     page_text : {"we hire", "hybrid schedule"},
     company_info : {NoCompany},
     criteria_list : CriteriaLists,
     description : {Missing, "About the job"},
     posted_time : {Missing, "2 days ago"},
     salary : {Missing, "$100K - $120K"},
     applicants : {Missing, "25 applicants"},
     link_href : {Missing, NULL, "linkedin.com/jobs/view/4301"}]
    \cup
    [logo_alt : {"Acme"},
     title : {"Engineer"},
     location : {"Austin, TX"},
     page_text : {"we hire"},
     company_info : CompanyInfos,
     criteria_list : {CriteriaItems},
     description : {"About the job"},
     posted_time : {"2 days ago"},
     salary : {Missing},
     applicants : {Missing},
     link_href : {"linkedin.com/jobs/view/4301"}]

\* _determine_work_location_type: the location is searched first, then the
\* text of the page
_determine_work_location_type(page_text, location) ==
    IF location = "Remote" THEN "Remote"
    ELSE IF page_text = "hybrid schedule" THEN "Hybrid"
    ELSE "On-site"

\* criteria_list[i] if i < len(criteria_list) else ""; "" for all four when
\* the list is missing
criterion(criteria_list, i) ==
    IF criteria_list = <<Missing>> THEN ""
    ELSE IF i <= Len(criteria_list) THEN criteria_list[i] ELSE ""

\* the try blocks of lines 250-294 and 333-411: the entries of job_info that
\* are read off the page
job_info(soup) ==
    LET location == IF soup.location = Missing THEN "Location not specified"
                    ELSE soup.location
    IN  [company |-> IF soup.logo_alt = Missing THEN "Unknown Company" ELSE soup.logo_alt,
         title |-> IF soup.title = Missing THEN "Unknown Title" ELSE soup.title,
         location |-> location,
         work_location_type |-> _determine_work_location_type(soup.page_text, location),
         level |-> criterion(soup.criteria_list, 1),
         employment_type |-> criterion(soup.criteria_list, 2),
         job_function |-> criterion(soup.criteria_list, 3),
         industries |-> criterion(soup.criteria_list, 4),
         content |-> IF soup.description = Missing THEN "" ELSE soup.description,
         posted_time |-> IF soup.posted_time = Missing THEN "N/A" ELSE soup.posted_time,
         salary_range |-> IF soup.salary = Missing THEN NULL ELSE soup.salary,
         applicants |-> IF soup.applicants = Missing THEN "N/A" ELSE soup.applicants,
         job_posting_link |-> IF soup.link_href = Missing THEN "N/A" ELSE soup.link_href]

\* the names of companies rows that can be in the store before the call
StoredCompanies ==
    {<<>>,
     <<Company(NewId(1), "Acme", NULL, NULL, NULL, NULL)>>,
     <<Company(NewId(1), "Acme", "11-50 employees", "900 followers", "Software",
               "linkedin.com/company/acme")>>}

InitDetails ==
    /\ GraphIdle
    /\ SalaryIdle
    /\ LevelIdle
    /\ ParserIdle
    /\ CallerIdle
    /\ ChainsIdle
    /\ CleanerIdle
    /\ job_runs = <<>>
    /\ jobs_table = <<>>
    /\ companies \in StoredCompanies
    /\ uuid = Len(companies)
    /\ detail_soup \in Soups
    /\ detail_job = [none |-> TRUE]

\* _extract_job_details(soup, job_id, date, parsing_link, run_id): the fields
\* are read off the page, the company is saved or looked up, the Job is built
ExtractJobDetails ==
    /\ detail_job = [none |-> TRUE]
    /\ LET info == job_info(detail_soup)
           page == [kind |-> "job", company |-> info.company,
                    company_info |-> detail_soup.company_info, company_sleep |-> FALSE]
           d == _extract_job_details(companies, uuid, "4301", 1, page)
       IN  /\ detail_job' = d.job @@ d.snapshot @@ info
           /\ companies' = d.companies
           /\ uuid' = d.uuid
    /\ UNCHANGED <<job_runs, jobs_table, detail_soup>>
    /\ UNCHANGED outside_details

NextDetails == ExtractJobDetails

SpecDetails == InitDetails /\ [][NextDetails]_vars

(***************************************************************************)
(* chains/: one call of a cleaning chain on its own.  The deterministic    *)
(* step runs first; the call returns its value, or goes on to invoke the   *)
(* LLM chain, whose reply is an input of that step.                        *)
(***************************************************************************)
\* the keyword lists of _detect_location_type_with_keywords
remote_keywords == {"remote", "work from home", "wfh", "100% remote", "fully remote"}
hybrid_keywords == {"hybrid", "flexible", "office/remote", "remote/office"}
onsite_keywords == {"on-site", "onsite", "in-office", "office-based"}

\* the sets of these keywords a text can contain: a text that contains a
\* keyword contains the keywords that are part of it
LocationKeywordSets ==
    {kw \in SUBSET (remote_keywords \cup hybrid_keywords \cup onsite_keywords) :
        kw \cap {"100% remote", "fully remote", "office/remote", "remote/office"} # {}
            => "remote" \in kw}

\* what the LLM writes for the years: no number, numbers, or the -1 the
\* prompt asks for when the years are unclear (its digits are the number 1)
YearsReplies ==
    {[status |-> "ok", numbers |-> <<>>, negative |-> FALSE],
     [status |-> "ok", numbers |-> <<0>>, negative |-> FALSE],
     [status |-> "ok", numbers |-> <<3, 5>>, negative |-> FALSE],
     [status |-> "ok", numbers |-> <<1>>, negative |-> TRUE]}

ChainContents(chain) ==
    CASE chain = "experience" ->
            {Content(y, kw, WordsText(FALSE)) :
                y \in {NoneNum, 0, 5}, kw \in {{}, {"intern"}, {"senior"}, {"remote"}}}
      [] chain = "salary" ->
            {Content(NoneNum, {}, t) :
                t \in {WordsText(FALSE), WordsText(TRUE), Text_80_120, Text_120_80,
                       Text_90K_130K}}
      [] chain = "location" ->
            {Content(NoneNum, kw, WordsText(FALSE)) : kw \in LocationKeywordSets}
      [] chain = "employment" ->
            {Content(NoneNum, kw, WordsText(FALSE)) :
                kw \in SUBSET {"full-time", "part-time", "contract", "intern", "senior"}}

ChainReplies(chain) ==
    {LLMFailure} \cup
    CASE chain = "experience" -> YearsReplies
      [] chain = "salary" -> GraphSalaryReplies
      [] chain = "location" -> LocationReplies
      [] chain = "employment" -> EmploymentReplies

\* the deterministic step of the chain
Deterministic(chain, content) ==
    CASE chain = "experience" -> _extract_years_with_keywords(content)
      [] chain = "salary" -> _extract_salary_with_regex(content.salary)
      [] chain = "location" -> _detect_location_type_with_keywords(content)
      [] chain = "employment" -> _detect_employment_type_with_keywords(content)

\* the test after the deterministic step that sends the call on to the LLM
Inconclusive(chain, content) ==
    CASE chain = "experience" -> ~(Deterministic(chain, content) >= 0)
      [] chain = "salary" -> Deterministic(chain, content) = NoneSalary
      [] chain = "location" -> ~(Deterministic(chain, content) # "Unknown")
      [] chain = "employment" -> ~(Deterministic(chain, content) # "Unknown")

\* what the chain returns once the LLM chain has replied or raised
AfterLLM(chain, content, llm) ==
    CASE chain = "experience" -> extract_experience_years(content, llm)
      [] chain = "salary" -> extract_salary_range(content.salary, llm)
      [] chain = "location" -> validate_location_type(content, llm)
      [] chain = "employment" -> validate_employment_type(content, llm)

Chains == {"experience", "salary", "location", "employment"}

InitChains ==
    /\ GraphIdle
    /\ SalaryIdle
    /\ LevelIdle
    /\ DatabaseEmpty
    /\ ParserIdle
    /\ CallerIdle
    /\ DetailsIdle
    /\ CleanerIdle
    /\ \E chain \in Chains :
          chain_call \in [chain : {chain}, content : ChainContents(chain), pc : {"called"},
                          llm_calls : {0}, llm : {<<>>}, returned : {<<>>}]

\* the deterministic step, and the return if it is conclusive
RunDeterministic ==
    /\ chain_call.chain # "none"
    /\ chain_call.pc = "called"
    /\ chain_call' =
          IF Inconclusive(chain_call.chain, chain_call.content)
          THEN [chain_call EXCEPT !.pc = "llm"]
          ELSE [chain_call EXCEPT
                   !.pc = "returned",
                   !.returned = <<Deterministic(chain_call.chain, chain_call.content)>>]
    /\ UNCHANGED outside_chains

\* asyncio.to_thread(self.chain.invoke, ...): the LLM replies or raises, and
\* the chain returns
InvokeLLM ==
    /\ chain_call.chain # "none"
    /\ chain_call.pc = "llm"
    /\ \E llm \in ChainReplies(chain_call.chain) :
          chain_call' =
             [chain_call EXCEPT
                 !.pc = "returned",
                 !.llm_calls = @ + 1,
                 !.llm = <<llm>>,
                 !.returned = <<AfterLLM(chain_call.chain, chain_call.content, llm)>>]
    /\ UNCHANGED outside_chains

NextChains == RunDeterministic \/ InvokeLLM

SpecChains == InitChains /\ [][NextChains]_vars

(***************************************************************************)
(* parser.py: _get_job_ids on its own, called with a number of jobs.       *)
(***************************************************************************)
InitJobIds ==
    /\ GraphIdle
    /\ SalaryIdle
    /\ LevelIdle
    /\ DatabaseEmpty
    /\ CallerIdle
    /\ ChainsIdle
    /\ DetailsIdle
    /\ CleanerIdle
    /\ parse_pc = "_get_job_ids"
    /\ job_run = 0
    /\ total_jobs \in TotalJobs
    /\ pages = ceil_div(total_jobs, 25)
    /\ page_i = 0
    /\ page_log = <<>>
    /\ job_ids = {}
    /\ unique_job_ids = <<>>
    /\ jobs = <<>>
    /\ net_log = <<>>
    /\ parse_exc = "none"

NextJobIds == FetchPage \/ ReturnJobIds

SpecJobIds == InitJobIds /\ [][NextJobIds]_vars

(***************************************************************************)
(* Properties.                                                             *)
(***************************************************************************)
RangeOf(seq) == {seq[i] : i \in 1..Len(seq)}

FixedOrder == <<"initialize", "extract_experience", "extract_salary",
                "validate_location", "validate_employment", "finalize">>

\* the current job is past the workflow's start
InJob == pc \in Nodes \cup {"END", "except"}

\* an original classification that is absent, empty or whitespace-only
OriginalMissing(original) == original \in {NoneStr, <<>>, Str_blank}

\* the value is a SalaryRange object
IsRange(r) == r # NotCalled /\ r # NoneSalary

\* C1: no stage node raises, whatever its input fields and whatever fails in
\* its chain, so every job whose workflow ends has passed Finalize exactly
\* once and has processing_complete = TRUE.
C1_EveryJobReachesFinalize ==
    /\ raised_in \notin Nodes
    /\ pc = "END" =>
          /\ state.processing_complete
          /\ Cardinality({i \in 1..Len(trace) : trace[i] = "finalize"}) = 1

\* C2: within one process_job run the nodes that have run are an initial
\* part of the fixed order Initialize, ExtractExperience, ExtractSalary,
\* ValidateLocation, ValidateEmployment, Finalize; the node about to run is
\* the one right after them (nothing skipped, repeated or retried), and the
\* workflow ends only after all six.
C2_FixedOrder ==
    InJob =>
       /\ Len(trace) <= Len(FixedOrder)
       /\ \A i \in 1..Len(trace) : trace[i] = FixedOrder[i]
       /\ pc \in Nodes => pc = FixedOrder[Len(trace) + 1]
       /\ pc = "END" => trace = FixedOrder

C2_Witness == pc = "END" /\ trace = FixedOrder /\ state.processing_complete

\* C3: the table process_dataframe returns has exactly one output row per
\* input row, in input order, whatever failed while a row was processed or
\* its progress reported; between two rows, every finished input row has
\* yielded exactly one output row.
C3_OneOutputRowPerInputRow ==
    /\ pc = "loop" => Len(results) = idx
    /\ pc = "returned" =>
          /\ Len(results) = Len(df)
          /\ \A i \in 1..Len(df) :
                \A k \in {"id", "company", "title", "location", "content", "salary_range"} :
                    results[i][k] = df[i][k]

ErrorMessage(node) ==
    CASE node = "extract_experience" -> "Failed to extract experience"
      [] node = "extract_salary" -> "Failed to extract salary"
      [] node = "validate_location" -> "Failed to validate location type"
      [] node = "validate_employment" -> "Failed to validate employment type"

\* C4: when a chain fails while a job is processed (its LLM call raises or
\* its reply does not parse), a message describing the failure is in the
\* job's processing_errors; in particular a job whose salary chain failed
\* has non-empty processing_errors and no salary.
C4_ChainFailureIsRecorded ==
    InJob =>
       /\ \A node \in chain_failures : ErrorMessage(node) \in RangeOf(state.processing_errors)
       /\ "extract_salary" \in chain_failures =>
             state.processing_errors # <<>> /\ state.salary_range = NoneSalary

\* C5: in validate_location_node and validate_employment_node, when no
\* original classification is supplied (absent, empty or whitespace-only),
\* the stored type equals the detected value and the corrected flag is true
\* if and only if a value was detected and it is not Unknown.
C5_NoOriginalCorrectedIffDetected ==
    InJob =>
       /\ ("validate_location" \in RangeOf(trace)
             /\ OriginalMissing(state.original_work_location_type)) =>
             /\ state.location_corrected <=> detected.location \notin {NoneEnum, "Unknown"}
             /\ state.location_corrected <=> state.work_location_type # "Unknown"
             /\ detected.location # NoneEnum =>
                   state.work_location_type = detected.location
       /\ ("validate_employment" \in RangeOf(trace)
             /\ OriginalMissing(state.original_employment_type)) =>
             /\ state.employment_corrected <=> detected.employment \notin {NoneEnum, "Unknown"}
             /\ state.employment_corrected <=> state.employment_type # "Unknown"
             /\ detected.employment # NoneEnum =>
                   state.employment_type = detected.employment

C5_Witness ==
    /\ pc = "END"
    /\ state.original_work_location_type = Str_blank
    /\ state.location_corrected
    /\ state.original_employment_type = NoneStr
    /\ detected.employment = "Unknown"
    /\ ~state.employment_corrected

\* C6: in validate_location_node and validate_employment_node, for every
\* non-empty original classification string, when the validator's result is
\* Unknown the node does not fail, the stored type equals the original mapped
\* to the enumeration and the corrected flag is false.
C6_UnknownKeepsOriginal ==
    InJob =>
       /\ (Truthy(state.original_work_location_type) /\ detected.location = "Unknown") =>
             /\ raised_in # "validate_location"
             /\ "validate_location" \in RangeOf(trace) =>
                   /\ state.work_location_type =
                          map_to_location_type(state.original_work_location_type)
                   /\ ~state.location_corrected
       /\ (Truthy(state.original_employment_type) /\ detected.employment = "Unknown") =>
             /\ raised_in # "validate_employment"
             /\ "validate_employment" \in RangeOf(trace) =>
                   /\ state.employment_type =
                          map_to_employment_type(state.original_employment_type)
                   /\ ~state.employment_corrected

\* C7 as claimed: in every record that reaches Finalize, a corrected flag is
\* true only when an original value was supplied, was parsed, and the
\* normalized value differs from it.
C7_CorrectedOnlyWithOriginal ==
    pc = "END" =>
       /\ state.location_corrected =>
             /\ ~OriginalMissing(state.original_work_location_type)
             /\ state.work_location_type #
                    map_to_location_type(state.original_work_location_type)
       /\ state.employment_corrected =>
             /\ ~OriginalMissing(state.original_employment_type)
             /\ state.employment_type #
                    map_to_employment_type(state.original_employment_type)
       /\ state.salary_corrected =>
             /\ HasText(state.original_salary_range)
             /\ _extract_salary_with_regex(state.original_salary_range) # NoneSalary
             /\ state.salary_range #
                    _extract_salary_with_regex(state.original_salary_range)

\* C7 as amended: in every record that reaches Finalize, location_corrected
\* and employment_corrected are true only when the stored type is not Unknown
\* and differs from the original mapped to the enumeration, a missing or
\* blank original mapping to Unknown; salary_corrected is true only when a
\* salary range was extracted from the content and the original salary text
\* was missing or was not parsed by the regex step.
C7_CorrectedOnlyWhenDifferent ==
    pc = "END" =>
       /\ state.location_corrected =>
             /\ state.work_location_type # "Unknown"
             /\ state.work_location_type #
                    map_to_location_type(state.original_work_location_type)
       /\ state.employment_corrected =>
             /\ state.employment_type # "Unknown"
             /\ state.employment_type #
                    map_to_employment_type(state.original_employment_type)
       /\ state.salary_corrected =>
             /\ state.salary_range # NoneSalary
             /\ ~(HasText(state.original_salary_range)
                  /\ _extract_salary_with_regex(state.original_salary_range) # NoneSalary)

C7_Witness ==
    /\ pc = "END"
    /\ OriginalMissing(state.original_work_location_type)
    /\ state.location_corrected
    /\ state.original_salary_range = NoneText
    /\ state.salary_corrected

\* C8: every SalaryRange the salary chain produces, by the regex step or by
\* the LLM fallback, has mid_salary = (min_salary + max_salary) / 2 when both
\* bounds are present and no mid_salary when either bound is absent.
C8_MidIsMean ==
    \A r \in {sal_regex, sal_result} :
        IsRange(r) =>
           IF r.min_salary # NoneNum /\ r.max_salary # NoneNum
           THEN 2 * r.mid_salary = r.min_salary + r.max_salary
           ELSE r.mid_salary = NoneNum

C8_Witness ==
    /\ sal_regex = NoneSalary
    /\ IsRange(sal_result)
    /\ sal_result.min_salary = Float(90000)
    /\ sal_result.max_salary = Float(130000)
    /\ sal_result.mid_salary = Float(110000)

\* C9: for every salary text that the regex step parses as a range, the
\* returned SalaryRange has min_salary <= max_salary.
C9_MinAtMostMax ==
    IsRange(sal_regex) => sal_regex.min_salary <= sal_regex.max_salary

\* C10: in regex salary extraction the thousands heuristic applies exactly
\* when the content mentions "k" and the parsed minimum is under 1000; when
\* it applies both bounds are the parsed numbers times 1000 ("$90K to $130K
\* per year" gives 90000 and 130000), otherwise both are the parsed numbers.
C10_ThousandsHeuristic ==
    /\ IsRange(sal_regex) =>
          LET lo == Float(GroupsValue(sal_text.lo))
              hi == Float(GroupsValue(sal_text.hi))
              applies == (sal_text.ksuf \/ sal_text.other_k) /\ lo < Float(1000)
          IN  /\ sal_regex.min_salary = IF applies THEN 1000 * lo ELSE lo
              /\ sal_regex.max_salary = IF applies THEN 1000 * hi ELSE hi
    /\ (sal_text = Text_90K_130K /\ sal_regex # NotCalled) =>
          /\ IsRange(sal_regex)
          /\ sal_regex.min_salary = Float(90000)
          /\ sal_regex.max_salary = Float(130000)

C10_Witness ==
    /\ sal_text = Text_90K_130K
    /\ IsRange(sal_regex)
    /\ sal_regex.min_salary = Float(90000)
    /\ sal_regex.max_salary = Float(130000)

(***************************************************************************)
(* C11: from_years returns a band for every year count, a larger count     *)
(* never gets a lower band, the band is the same inside each of 0, 1, 2-3, *)
(* 4-5, 6-8, 9-12 and 13+, and it differs from the band of the count just  *)
(* below at each of 1, 2, 4, 6, 9 and 13 (0 is the lowest count and opens  *)
(* the lowest band).                                                       *)
(***************************************************************************)
\* the least year count of each band
Breakpoints == <<0, 1, 2, 4, 6, 9, 13>>

\* the position in Breakpoints of the range a year count lies in
RangeIndex(n) ==
    CHOOSE i \in 1..Len(Breakpoints) :
        /\ Breakpoints[i] <= n
        /\ i < Len(Breakpoints) => n < Breakpoints[i + 1]

C11_FromYearsOrderPreserving ==
    Len(exp_levels) = 2 =>
        LET n == exp_years[1]
            m == exp_years[2]
            bn == exp_levels[1]
            bm == exp_levels[2]
        IN /\ bn \in ExperienceLevel /\ bm \in ExperienceLevel
           /\ n <= m => ExperienceLevelValue(bn) <= ExperienceLevelValue(bm)
           /\ RangeIndex(n) = RangeIndex(m) => bn = bm
           /\ RangeIndex(n) # RangeIndex(m) => bn # bm

C11_Witness ==
    /\ Len(exp_levels) = 2
    /\ exp_years = <<3, 4>>
    /\ exp_levels = <<"ASSOCIATE", "MID">>

(***************************************************************************)
(* C12: a run created by parse_jobs starts as pending; once it is          *)
(* completed or failed its row never changes again; a failed run carries   *)
(* the exception message; and when an invocation of parse_jobs has ended,  *)
(* by return or by exception, its run is completed or failed.              *)
(***************************************************************************)
C12_RunUpdatedExactlyOnce ==
    /\ [](parse_pc \in {"returned", "raised"} =>
             job_runs[job_run].status \in {"completed", "failed"})
    /\ [](\A r \in DOMAIN job_runs :
             job_runs[r].status = "failed" => job_runs[r].error_message # NULL)
    /\ [][/\ \A r \in DOMAIN job_runs :
                job_runs[r].status # "pending" => job_runs'[r] = job_runs[r]
          /\ \A r \in DOMAIN job_runs' \ DOMAIN job_runs :
                job_runs'[r].status = "pending"]_vars

(***************************************************************************)
(* C13: when parse_jobs has returned, the rows of the jobs table that      *)
(* belong to its run are exactly the jobs that were extracted (the jobs it *)
(* returns), the run is completed with their number as job count, and a    *)
(* run is failed only for an error outside the per-job steps.              *)
(***************************************************************************)
RunRows(run_id) == {jobs_table[k] : k \in {j \in DOMAIN jobs_table : jobs_table[j].run_id = run_id}}

C13_FailedJobsOnlyAreSkipped ==
    /\ parse_pc = "returned" =>
          /\ job_runs[job_run].status = "completed"
          /\ RunRows(job_run) = RangeOf(jobs)
          /\ job_runs[job_run].job_count = Cardinality(RunRows(job_run))
    /\ \A r \in DOMAIN job_runs :
          job_runs[r].status = "failed" => job_runs[r].error_message = AttributeError_NoneType

(***************************************************************************)
(* C20: in the log of an invocation, between two fetches of job-detail     *)
(* pages, and between two fetches of search pages, there is a delay.       *)
(***************************************************************************)
C20_DelayBetweenFetches ==
    \A a, b \in DOMAIN net_log :
        (a < b /\ net_log[a] = net_log[b] /\ net_log[a] \in {"page", "job"}) =>
            \E k \in (a + 1)..(b - 1) : net_log[k] \in {"sleep", "company_sleep"}

(***************************************************************************)
(* C14: a save_job call for a Job whose id is already in the jobs table    *)
(* leaves the table as it was and completes without raising.               *)
(***************************************************************************)
C14_SaveJobIsInsertIfAbsent ==
    (/\ last_call.op = "save_job"
     /\ \E k \in DOMAIN last_call.before : last_call.before[k].id = last_call.job.id) =>
        /\ jobs_table = last_call.before
        /\ last_call.raised = NoError

(***************************************************************************)
(* C15: the companies table never holds two rows with the same name, and a *)
(* save_company call that returns gives the id of the row of that name,    *)
(* which is the id the row had before the call if it existed.              *)
(***************************************************************************)
C15_OneRowPerCompanyName ==
    /\ \A a, b \in DOMAIN companies :
          companies[a].company_name = companies[b].company_name => a = b
    /\ (last_call.op = "save_company" /\ last_call.raised = NoError) =>
          LET name == last_call.company.company_name IN
          /\ company_row(companies, name) # 0
          /\ last_call.id = companies[company_row(companies, name)].id
          /\ company_row(last_call.before, name) # 0 =>
                last_call.id = last_call.before[company_row(last_call.before, name)].id

C15_Witness ==
    /\ last_call.op = "save_company"
    /\ last_call.raised = NoError
    /\ Len(last_call.before) = 2
    /\ Len(companies) = 2
    /\ last_call.id = companies[1].id
    /\ last_call.company.company_name = companies[1].company_name

(***************************************************************************)
(* C16: after a save_company call for a company that exists, each of size, *)
(* followers, industry and URL of its row is the new value if that is not  *)
(* null and the previous value otherwise; nothing else changes.            *)
(***************************************************************************)
NewOrPrevious(new, previous) == IF new = NULL THEN previous ELSE new

C16_NullNeverReplacesAValue ==
    (/\ last_call.op = "save_company"
     /\ company_row(last_call.before, last_call.company.company_name) # 0) =>
        LET k == company_row(last_call.before, last_call.company.company_name)
            previous == last_call.before[k]
            new == last_call.company
        IN /\ last_call.raised = NoError
           /\ companies = [last_call.before EXCEPT ![k] =
                 Company(previous.id, previous.company_name,
                         NewOrPrevious(new.company_size, previous.company_size),
                         NewOrPrevious(new.followers, previous.followers),
                         NewOrPrevious(new.industry, previous.industry),
                         NewOrPrevious(new.company_url, previous.company_url))]

C16_Witness ==
    /\ last_call.op = "save_company"
    /\ Len(last_call.before) = 1
    /\ last_call.company.company_name = last_call.before[1].company_name
    /\ last_call.before[1].company_size = "51-200 employees"
    /\ last_call.before[1].industry = "Software"
    /\ last_call.company.company_size = "201-500 employees"
    /\ last_call.company.industry = NULL
    /\ companies[1].company_size = "201-500 employees"
    /\ companies[1].industry = "Software"

(***************************************************************************)
(* C17: when get_or_enrich_company is called twice in succession with the  *)
(* same name and no job page, the second call returns was_enriched = false *)
(* and the company id of the first, and no populated field of a company    *)
(* row changes.                                                            *)
(***************************************************************************)
KeyFields == {"company_size", "followers", "industry", "company_url"}

C17_SecondEnrichmentIsIdle ==
    (/\ last_call.op = "get_or_enrich_company"
     /\ prev_call.op = "get_or_enrich_company"
     /\ last_call.company_name = prev_call.company_name
     /\ last_call.job_soup = NoSoup
     /\ prev_call.job_soup = NoSoup
     /\ prev_call.raised = NoError) =>
        /\ last_call.raised = NoError
        /\ last_call.result.was_enriched = FALSE
        /\ last_call.result.company_id = prev_call.result.company_id
        /\ Len(companies) = Len(last_call.before)
        /\ \A k \in DOMAIN last_call.before : \A f \in KeyFields :
              last_call.before[k][f] # NULL => companies[k][f] = last_call.before[k][f]

C17_Witness ==
    /\ last_call.op = "get_or_enrich_company"
    /\ prev_call.op = "get_or_enrich_company"
    /\ last_call.company_name = "Acme"
    /\ prev_call.company_name = "Acme"
    /\ last_call.job_soup = NoSoup
    /\ prev_call.job_soup = NoSoup
    /\ prev_call.raised = NoError
    /\ last_call.result.was_enriched = FALSE
    /\ last_call.result.company_id = prev_call.result.company_id
    /\ \E k \in DOMAIN companies :
          /\ companies[k].company_name = "Acme"
          /\ companies[k].company_size = "51-200 employees"

(***************************************************************************)
(* C18: no step of a cleaning run changes the jobs table.                  *)
(***************************************************************************)
C18_SourceTableNeverWritten == [][jobs_table' = jobs_table]_vars

(***************************************************************************)
(* C19: the final state of a process_job call is the one its own job and   *)
(* the answers its own chains met produce on a graph that has processed no *)
(* other job, whatever other calls ran before or between its steps.        *)
(***************************************************************************)
RECURSIVE Alone(_, _, _, _)
Alone(s, node, answers, k) ==
    IF node = "END" THEN s
    ELSE Alone(NodeOutcome(node, s, answers[k]).state, Successor(node), answers, k + 1)

C19_ResultDependsOnOwnJobOnly ==
    \A i \in DOMAIN invocations :
        invocations[i].pc = "END" =>
            invocations[i].state =
                Alone(initial_state(invocations[i].job_data), EntryPoint,
                      invocations[i].answers, 1)

\* a call has finished on a thread where another job had left a state with
\* processing errors
C19_Witness ==
    \E i \in DOMAIN invocations :
        /\ invocations[i].pc = "END"
        /\ invocations[i].restored # <<>>
        /\ invocations[i].restored[1].content # invocations[i].job_data.content
        /\ invocations[i].restored[1].processing_errors # <<>>

(***************************************************************************)
(* C21: whichever of its lookups fail, _extract_job_details returns a Job   *)
(* in which each field whose lookup found no value holds its default and   *)
(* each other field holds the value on the page.                           *)
(***************************************************************************)
Found(v) == v # Missing /\ v # NULL

C21_FailedFieldsTakeDefaults ==
    detail_job # [none |-> TRUE] =>
        /\ detail_job.company =
              IF Found(detail_soup.logo_alt) THEN detail_soup.logo_alt ELSE "Unknown Company"
        /\ detail_job.title =
              IF Found(detail_soup.title) THEN detail_soup.title ELSE "Unknown Title"
        /\ detail_job.location =
              IF Found(detail_soup.location) THEN detail_soup.location
              ELSE "Location not specified"
        /\ \A i \in 1..4 :
              <<detail_job.level, detail_job.employment_type, detail_job.job_function,
                detail_job.industries>>[i] =
                 IF detail_soup.criteria_list # <<Missing>> /\ i <= Len(detail_soup.criteria_list)
                 THEN CriteriaItems[i] ELSE ""
        /\ detail_job.posted_time =
              IF Found(detail_soup.posted_time) THEN detail_soup.posted_time ELSE "N/A"
        /\ detail_job.applicants =
              IF Found(detail_soup.applicants) THEN detail_soup.applicants ELSE "N/A"
        /\ detail_job.job_posting_link =
              IF Found(detail_soup.link_href) THEN detail_soup.link_href ELSE "N/A"
        /\ detail_job.salary_range =
              IF Found(detail_soup.salary) THEN detail_soup.salary ELSE NULL

(***************************************************************************)
(* C22: a chain that has returned has called the LLM once if its           *)
(* deterministic step found nothing and not at all otherwise; in the       *)
(* second case it returns the deterministic value; the experience chain    *)
(* returns 0 when the LLM gives no number or a negative one.               *)
(***************************************************************************)
NothingFound(chain, content) ==
    CASE chain = "experience" -> _extract_years_with_keywords(content) = -1
      [] chain = "salary" -> \A p \in 1..6 : ~PatternMatches(p, content.salary)
      [] chain = "location" -> _detect_location_type_with_keywords(content) = "Unknown"
      [] chain = "employment" -> _detect_employment_type_with_keywords(content) = "Unknown"

C22_LLMOnlyWhenInconclusive ==
    (chain_call.chain # "none" /\ chain_call.pc = "returned") =>
        LET chain == chain_call.chain
            content == chain_call.content
        IN  /\ chain_call.llm_calls = IF NothingFound(chain, content) THEN 1 ELSE 0
            /\ ~NothingFound(chain, content) =>
                  chain_call.returned = <<Deterministic(chain, content)>>
            /\ (/\ chain = "experience"
                /\ chain_call.llm # <<>>
                /\ \/ chain_call.llm[1].status = "raise"
                   \/ chain_call.llm[1].numbers = <<>>
                   \/ chain_call.llm[1].negative)
                  => chain_call.returned = <<0>>

(***************************************************************************)
(* C23: the keyword step of the location chain returns the category with   *)
(* the highest score, Remote before Hybrid before On-site among equal top  *)
(* scores, and Unknown exactly when the three scores are zero.             *)
(***************************************************************************)
HighestScore(remote_score, hybrid_score, onsite_score) ==
    IF remote_score = 0 /\ hybrid_score = 0 /\ onsite_score = 0 THEN "Unknown"
    ELSE IF remote_score >= hybrid_score /\ remote_score >= onsite_score THEN "Remote"
    ELSE IF hybrid_score >= onsite_score THEN "Hybrid"
    ELSE "On-site"

C23_HighestScoreWins ==
    (chain_call.chain = "location" /\ chain_call.pc # "called") =>
        _detect_location_type_with_keywords(chain_call.content) =
            HighestScore(Score(remote_keywords, chain_call.content),
                         Score(hybrid_keywords, chain_call.content),
                         Score(onsite_keywords, chain_call.content))

(***************************************************************************)
(* C24: get_or_enrich_company on a company that is in the store: if one of *)
(* its size, followers and industry is set, it returns the id with         *)
(* was_enriched = false and leaves the store alone; if none is set, it     *)
(* extracts from the job page it is given, so that a page that holds       *)
(* company information enriches the row.                                   *)
(***************************************************************************)
C24_EnrichedIffSizeFollowersOrIndustry ==
    (/\ last_call.op = "get_or_enrich_company"
     /\ get_company_by_name(last_call.before, last_call.company_name) # NoCompany) =>
        LET existing == get_company_by_name(last_call.before, last_call.company_name)
        IN  IF \/ existing.company_size # NULL
               \/ existing.followers # NULL
               \/ existing.industry # NULL
            THEN /\ last_call.result =
                       CompanyEnrichmentResult(existing.id, TRUE, FALSE)
                 /\ companies = last_call.before
            ELSE FoundInfo(last_call.job_soup) =>
                    /\ last_call.result.was_enriched
                    /\ companies # last_call.before

(***************************************************************************)
(* C25: _get_job_ids requests the pages 0, 25, 50, ... one after the       *)
(* other, each once, ceil(total_jobs / 25) of them when it returns; a page *)
(* whose request fails does not end the loop; and the list it returns has  *)
(* no duplicates and holds the ids of the pages that were fetched.         *)
(***************************************************************************)
FetchedIds == UNION {page_log[k].job_ids : k \in {j \in DOMAIN page_log : page_log[j].outcome = "ok"}}

Enriched(row) ==
    row # NoCompany
    /\ (row.company_size # NULL \/ row.followers # NULL \/ row.industry # NULL)

C26_EnrichedCompanyNotFetchedAgain ==
    [][(Len(jobs') = Len(jobs) + 1
          /\ Enriched(get_company_by_name(companies, jobs'[Len(jobs')].company)))
         => \A k \in (Len(net_log) + 1)..Len(net_log') : net_log'[k] # "company_sleep"]_vars

(***************************************************************************)
(* C27: frame of the four stage nodes.                                     *)
(***************************************************************************)
\* the fields of the record each stage node writes
StageFields ==
    [extract_experience |-> {"min_years_experience", "experience_level",
                             "experience_level_label"},
     extract_salary |-> {"salary_range", "salary_corrected"},
     validate_location |-> {"work_location_type", "location_corrected"},
     validate_employment |-> {"employment_type", "employment_corrected"}]

Stages == DOMAIN StageFields

\* the columns of the output row that carry a stage's fields
StageColumns(stage) ==
    IF stage = "extract_salary"
    THEN {"min_salary", "max_salary", "mid_salary", "salary_currency", "salary_period",
          "salary_corrected"}
    ELSE StageFields[stage]

\* a step of `stage` changes only its own fields and the error list
FrameOfStage ==
    pc \in Stages =>
        /\ DOMAIN state' = DOMAIN state
        /\ \A f \in DOMAIN state \ (StageFields[pc] \cup {"processing_errors"}) :
              state'[f] = state[f]

\* the row put out for a job whose stage `raised_in` failed carries what the
\* other three stages left in the record
OtherResultsKept ==
    (pc = "except" /\ raised_in \in Stages /\ Len(results') = Len(results) + 1) =>
        LET row == results'[Len(results')]
        IN  \A stage \in Stages \ {raised_in} :
               \A c \in StageColumns(stage) :
                  /\ c \in DOMAIN row
                  /\ row[c] = _state_to_dict(state, job_data)[c]

\* C27: a step of a stage node changes only the stage's own output fields and
\* processing_errors, whether the stage succeeds or fails, and a failure in
\* one stage leaves the results of the other three stages in the job's
\* output as they are in the record.
C27_StageChangesOnlyItsOwnFields ==
    [][FrameOfStage /\ OtherResultsKept]_vars

(***************************************************************************)
(* C28: the job count of a completed run is the number of rows the jobs    *)
(* table holds for the run.                                                *)
(***************************************************************************)
\* the positions of the jobs table that hold a job of the run
StoredOfRun(run_id) == {k \in DOMAIN jobs_table : jobs_table[k].run_id = run_id}

\* C28: for every run that parse_jobs has marked completed, job_count equals
\* the number of Job rows stored in the jobs table with that run id, also
\* when save_job failed for some of the run's jobs.
C28_JobCountIsStoredRows ==
    \A r \in DOMAIN job_runs :
        job_runs[r].status = "completed" =>
            job_runs[r].job_count = Cardinality(StoredOfRun(r))

(***************************************************************************)
(* C29: what extract_salary_node does with a SalaryRange the chain returns.*)
(***************************************************************************)
\* the step of extract_salary_node in which the chain returned a SalaryRange
ChainReturnedRange ==
    /\ pc = "extract_salary"
    /\ detected'.salary # <<>>
    /\ detected'.salary[1] # NoneSalary

\* C29: whenever the salary chain returns a SalaryRange for the job's
\* content, also one with only one of min_salary and max_salary,
\* extract_salary_node stores it in salary_range, sets salary_corrected to
\* true and appends nothing to processing_errors.
C29_ReturnedRangeIsStored ==
    [][ChainReturnedRange =>
          /\ state'.salary_range = detected'.salary[1]
          /\ state'.salary_corrected = TRUE
          /\ state'.processing_errors = state.processing_errors]_vars

(***************************************************************************)
(* C30: the company fields of the Job that _extract_job_details returns    *)
(* and the companies row its company_id names.                             *)
(***************************************************************************)
\* C30: when _extract_job_details has returned a Job with a non-null
\* company_id, the companies table holds a row with that id for the Job's
\* company name, and the Job's company_size, company_followers and
\* company_industry equal the values of that row.
C30_SnapshotEqualsStoredRow ==
    (detail_job # [none |-> TRUE] /\ detail_job.company_id # NULL) =>
        \E k \in DOMAIN companies :
            /\ companies[k].id = detail_job.company_id
            /\ companies[k].company_name = detail_job.company
            /\ detail_job.company_size = companies[k].company_size
            /\ detail_job.company_followers = companies[k].followers
            /\ detail_job.company_industry = companies[k].industry

====
